---------------------------- MODULE Spec2Model ----------------------------
(***************************************************************************)
(* A model of libavtp's AVTPDU field accessors (stream, AAF, CRF, CVF,     *)
(* IEC 61883/IIDC, RVF and VSF stream) and of the CRF daemon of the        *)
(* examples (examples/crf-daemon.c).                                       *)
(*                                                                         *)
(* A PDU is the caller's buffer: a function from byte offsets to bytes     *)
(* (0..255), exactly what is on the wire.  A host-order machine word       *)
(* (uint32_t, uint64_t) is the set of the positions of its 1-bits, bit 0   *)
(* being the least significant one, so that &, |, ~, << and >> are exact   *)
(* for 64-bit operands.  A field identifier is the integer value of its    *)
(* enumerator, so a cast between two enumerations is the value-cast of C.  *)
(***************************************************************************)
EXTENDS Integers, Sequences, FiniteSets, TLC

VARIABLES acc,      \* the accessor family the caller uses on this buffer
          pdu,      \* the caller's buffer, byte offset -> byte
          pre,      \* the buffer as it was before the latest call
          call,     \* the latest call: operation, arguments, return value
          val,      \* the result variable of the latest get (Stale before it)
          ncalls    \* calls made so far

\* The CRF daemon: the variables of main, and the file-scope crf_seq_num.
VARIABLES fds,           \* fds[k].fd of the pollfd array
          revents,       \* fds[k].revents as the latest poll left it
          nfds,          \* entries handed to poll
          clients,       \* clients[k]: fd, events_per_crf, event_type
          crf_seq_num,   \* the sequence number expected next
          at,            \* where main is: "poll", "loop" or "exit"
          loop_i,        \* i, the index of the for loop over fds
          current_size   \* nfds as it was when poll returned

\* The daemon's surroundings: its descriptor table, the peers and the network.
VARIABLES desc,          \* descriptor -> the connection it refers to, 0 when closed
          conns,         \* connection -> bytes the peer wrote, has the peer closed
          backlog,       \* connections waiting in the listen queue, oldest first
          nconns,        \* connections made so far
          frame,         \* the frame waiting at the capture socket, <<>> when none
          nframes,       \* frames that have arrived so far
          nevents,       \* what peers have done so far: connects, writes, closes
          broken,        \* the daemon's own sockets that have an error pending
          sent,          \* what recv gave process_crf in the latest step (n = 0
                         \* when that step was another one), and connection ->
                         \* send calls made on it by the latest step
          registered     \* open connections whose REGISTER the daemon has processed

caller == <<acc, pdu, pre, call, val, ncalls>>
daemon == <<fds, revents, nfds, clients, crf_seq_num, at, loop_i, current_size>>
world == <<desc, conns, backlog, nconns, frame, nframes, nevents, broken, sent,
           registered>>
vars == <<caller, daemon, world>>

(***************************************************************************)
(* Bounds of the model.                                                    *)
(***************************************************************************)
MaxCalls == 1
PayloadLen == 8

(***************************************************************************)
(* Machine words as sets of bit positions.                                 *)
(***************************************************************************)
U32 == 0..31
U64 == 0..63

Shl(w, n) == {b + n : b \in w} \cap U64
Shr(w, n) == {b - n : b \in {x \in w : x >= n}}
Trunc32(w) == w \cap U32

\* The value of the bits 8j .. 8j+7 of word w, as a byte.
ByteOfWord(w, j) ==
    LET B(b) == IF (8 * j + b) \in w THEN 2 ^ b ELSE 0
    IN B(0) + B(1) + B(2) + B(3) + B(4) + B(5) + B(6) + B(7)

\* The bits of byte x, moved to the positions 8j .. 8j+7 of a word.
BitsOfByte(x, j) == {8 * j + b : b \in {c \in 0..7 : (x \div (2 ^ c)) % 2 = 1}}

\* The n bytes at offset ofs of buffer p read as one big-endian word:
\* ntohl(pdu->x), be64toh(pdu->x), get_unaligned_be32(&pdu->x).
LoadBE(p, ofs, n) == UNION {BitsOfByte(p[ofs + i], n - 1 - i) : i \in 0..(n - 1)}

\* Word w written big-endian to the n bytes at offset ofs of buffer p:
\* pdu->x = htonl(w), pdu->x = htobe64(w), put_unaligned_be32(w, &pdu->x).
StoreBE(p, ofs, n, w) ==
    [i \in DOMAIN p |->
        IF i \in ofs..(ofs + n - 1) THEN ByteOfWord(w, n - 1 - (i - ofs))
        ELSE p[i]]

\* util.h
BITMASK(len) == 0..(len - 1)
BITMAP_GET_VALUE(bitmap, mask, shift) == Shr(bitmap \cap mask, shift)
BITMAP_SET_VALUE(bitmap, v, mask, shift) ==
    (bitmap \ mask) \cup (Shl(v, shift) \cap mask)
get_unaligned_be32(p, ofs) == LoadBE(p, ofs, 4)
put_unaligned_be32(w, p, ofs) == StoreBE(p, ofs, 4, Trunc32(w))

EINVAL == 22

\* The word of a small number, and of a sequence of bytes (most significant first).
Word(n) == {b \in 0..30 : (n \div (2 ^ b)) % 2 = 1}
WordOfBytes(bs) == UNION {BitsOfByte(bs[i], Len(bs) - i) : i \in 1..Len(bs)}

\* A null pointer is a value that no buffer and no result variable has.
NULL == <<>>
NULLV == {-1}

\* The enumerator that a switch over enumeration enum selects for the value
\* field; "default" when the value is outside the enumeration.
Label(enum, field) ==
    IF field \in 0..(Len(enum) - 1) THEN enum[field + 1] ELSE "default"
\* The value of enumerator name of enumeration enum.
Enum(enum, name) == (CHOOSE i \in 1..Len(enum) : enum[i] = name) - 1

\* What a getter returns: its return value and the content of *val after it.
Got(out, w) == [res |-> 0, val |-> w]
GetFailed(out) == [res |-> 0 - EINVAL, val |-> out]
\* What a setter or an initializer returns: its return value and the buffer.
Done(p) == [res |-> 0, pdu |-> p]
Failed(p) == [res |-> 0 - EINVAL, pdu |-> p]

\* What a case of a switch over the field selects: mask, shift and the
\* offset of the word; Default is the default case (return -EINVAL).
Case(mask, shift, ofs) == [ok |-> TRUE, mask |-> mask, shift |-> shift, ofs |-> ofs]
Default == [ok |-> FALSE, mask |-> {}, shift |-> 0, ofs |-> 0]

\* A local variable: F of the value x, which is computed once.
With(x, F(_)) == F(x)

\* res = ...; if (res < 0) return res; then the step F on the buffer.
Then(r, F(_)) == IF r.res < 0 THEN r ELSE F(r.pdu)

(***************************************************************************)
(* avtp.h: the stream PDU (offsetof of each member) and the common header. *)
(***************************************************************************)
avtp_stream_pdu ==
    [subtype_data |-> 0, stream_id |-> 4, avtp_time |-> 12,
     format_specific |-> 16, packet_info |-> 20, avtp_payload |-> 24]

AVTP_SUBTYPE ==
    [IIDC_61883 |-> 0, AAF |-> 2, CVF |-> 3, CRF |-> 4, RVF |-> 7,
     VSF_STREAM |-> 111]

\* avtp_pdu_get / avtp_pdu_set on AVTP_FIELD_SUBTYPE: the most significant
\* byte of the first header word.
avtp_pdu_get_subtype(p) ==
    BITMAP_GET_VALUE(LoadBE(p, 0, 4), Shl(BITMASK(8), 31 - 7), 31 - 7)
avtp_pdu_set_subtype(p, v) ==
    IF p = NULL THEN Failed(p)
    ELSE Done(StoreBE(p, 0, 4,
            BITMAP_SET_VALUE(LoadBE(p, 0, 4), v, Shl(BITMASK(8), 31 - 7), 31 - 7)))

\* memset(pdu, 0, n)
memset0(p, n) == [i \in DOMAIN p |-> IF i < n THEN 0 ELSE p[i]]

(***************************************************************************)
(* avtp_stream.h, avtp_stream.c                                            *)
(***************************************************************************)
avtp_stream_field ==
    <<"SV", "MR", "TV", "SEQ_NUM", "TU", "STREAM_ID", "TIMESTAMP",
      "STREAM_DATA_LEN", "MAX">>

\* A faulty table: SHIFT_SV written as (31 - 7), one bit too high.
stream_SHIFT_sv_bit7 ==
    [SV |-> 31 - 7, MR |-> 31 - 12, TV |-> 31 - 15, SEQ_NUM |-> 31 - 23,
     STREAM_DATA_LEN |-> 31 - 15]

stream_SHIFT ==
    [SV |-> 31 - 8, MR |-> 31 - 12, TV |-> 31 - 15, SEQ_NUM |-> 31 - 23,
     STREAM_DATA_LEN |-> 31 - 15]

\* A stream_MASK whose MR mask reaches over the three version bits.
stream_MASK_mr_over_version ==
    [SV |-> Shl(BITMASK(1), stream_SHIFT.SV),
     MR |-> Shl(BITMASK(4), stream_SHIFT.MR),
     TV |-> Shl(BITMASK(1), stream_SHIFT.TV),
     SEQ_NUM |-> Shl(BITMASK(8), stream_SHIFT.SEQ_NUM),
     TU |-> BITMASK(1),
     STREAM_DATA_LEN |-> Shl(BITMASK(16), stream_SHIFT.STREAM_DATA_LEN)]

stream_MASK ==
    [SV |-> Shl(BITMASK(1), stream_SHIFT.SV),
     MR |-> Shl(BITMASK(1), stream_SHIFT.MR),
     TV |-> Shl(BITMASK(1), stream_SHIFT.TV),
     SEQ_NUM |-> Shl(BITMASK(8), stream_SHIFT.SEQ_NUM),
     TU |-> BITMASK(1),
     STREAM_DATA_LEN |-> Shl(BITMASK(16), stream_SHIFT.STREAM_DATA_LEN)]

\* The switch of get_field_value.
stream_get_case(f) ==
    CASE f = "SV" -> Case(stream_MASK.SV, stream_SHIFT.SV, avtp_stream_pdu.subtype_data)
      [] f = "MR" -> Case(stream_MASK.MR, stream_SHIFT.MR, avtp_stream_pdu.subtype_data)
      [] f = "TV" -> Case(stream_MASK.TV, stream_SHIFT.TV, avtp_stream_pdu.subtype_data)
      [] f = "SEQ_NUM" ->
            Case(stream_MASK.SEQ_NUM, stream_SHIFT.SEQ_NUM, avtp_stream_pdu.subtype_data)
      [] f = "TU" -> Case(stream_MASK.TU, 0, avtp_stream_pdu.subtype_data)
      [] f = "STREAM_DATA_LEN" ->
            Case(stream_MASK.STREAM_DATA_LEN, stream_SHIFT.STREAM_DATA_LEN,
                 avtp_stream_pdu.packet_info)
      [] OTHER -> Default

stream_get_field_value(p, field, out) ==
    With(stream_get_case(Label(avtp_stream_field, field)), LAMBDA c :
        IF ~c.ok THEN GetFailed(out)
        ELSE Got(out, BITMAP_GET_VALUE(LoadBE(p, c.ofs, 4), Trunc32(c.mask), c.shift)))

\* A faulty getter: the null check of val is missing.
avtp_stream_pdu_get_no_val_check(p, field, out) ==
    IF p = NULL THEN GetFailed(out)
    ELSE LET f == Label(avtp_stream_field, field)
         IN CASE f \in {"SV", "MR", "TV", "SEQ_NUM", "TU", "STREAM_DATA_LEN"} ->
                    stream_get_field_value(p, field, out)
              [] f = "TIMESTAMP" -> Got(out, LoadBE(p, avtp_stream_pdu.avtp_time, 4))
              [] f = "STREAM_ID" -> Got(out, LoadBE(p, avtp_stream_pdu.stream_id, 8))
              [] OTHER -> GetFailed(out)

avtp_stream_pdu_get(p, field, out) ==
    IF p = NULL \/ out = NULLV THEN GetFailed(out)
    ELSE LET f == Label(avtp_stream_field, field)
         IN CASE f \in {"SV", "MR", "TV", "SEQ_NUM", "TU", "STREAM_DATA_LEN"} ->
                    stream_get_field_value(p, field, out)
              [] f = "TIMESTAMP" -> Got(out, LoadBE(p, avtp_stream_pdu.avtp_time, 4))
              [] f = "STREAM_ID" -> Got(out, LoadBE(p, avtp_stream_pdu.stream_id, 8))
              [] OTHER -> GetFailed(out)

\* The switch of set_field_value.
stream_set_case(f) ==
    CASE f = "SV" -> Case(stream_MASK.SV, stream_SHIFT.SV, avtp_stream_pdu.subtype_data)
      [] f = "MR" -> Case(stream_MASK.MR, stream_SHIFT.MR, avtp_stream_pdu.subtype_data)
      [] f = "TV" -> Case(stream_MASK.TV, stream_SHIFT.TV, avtp_stream_pdu.subtype_data)
      [] f = "SEQ_NUM" ->
            Case(stream_MASK.SEQ_NUM, stream_SHIFT.SEQ_NUM, avtp_stream_pdu.subtype_data)
      [] f = "TU" -> Case(stream_MASK.TU, 0, avtp_stream_pdu.subtype_data)
      [] f = "STREAM_DATA_LEN" ->
            Case(stream_MASK.STREAM_DATA_LEN, stream_SHIFT.STREAM_DATA_LEN,
                 avtp_stream_pdu.packet_info)
      [] OTHER -> Default

\* A faulty setter: the word is not read before it is written.
stream_set_field_value_overwrite(p, field, v) ==
    With(stream_set_case(Label(avtp_stream_field, field)), LAMBDA c :
        IF ~c.ok THEN Failed(p)
        ELSE Done(put_unaligned_be32(
                 BITMAP_SET_VALUE({}, v, Trunc32(c.mask), c.shift), p, c.ofs)))

stream_set_field_value(p, field, v) ==
    With(stream_set_case(Label(avtp_stream_field, field)), LAMBDA c :
        IF ~c.ok THEN Failed(p)
        ELSE Done(put_unaligned_be32(
                 BITMAP_SET_VALUE(get_unaligned_be32(p, c.ofs), v, Trunc32(c.mask), c.shift),
                 p, c.ofs)))

avtp_stream_pdu_set(p, field, v) ==
    IF p = NULL THEN Failed(p)
    ELSE LET f == Label(avtp_stream_field, field)
         IN CASE f \in {"SV", "MR", "TV", "SEQ_NUM", "TU", "STREAM_DATA_LEN"} ->
                    stream_set_field_value(p, field, v)
              [] f = "TIMESTAMP" ->
                    Done(StoreBE(p, avtp_stream_pdu.avtp_time, 4, Trunc32(v)))
              [] f = "STREAM_ID" -> Done(StoreBE(p, avtp_stream_pdu.stream_id, 8, v))
              [] OTHER -> Failed(p)

(***************************************************************************)
(* avtp_aaf.h, avtp_aaf.c                                                  *)
(***************************************************************************)
avtp_aaf_field ==
    <<"SV", "MR", "TV", "SEQ_NUM", "TU", "STREAM_ID", "TIMESTAMP",
      "STREAM_DATA_LEN", "FORMAT", "NSR", "CHAN_PER_FRAME", "BIT_DEPTH",
      "SP", "EVT", "MAX">>

\* A faulty table: SHIFT_SP written as (31 - 12).
aaf_SHIFT_sp_bit12 ==
    [FORMAT |-> 31 - 7, NSR |-> 31 - 11, CHAN_PER_FRAME |-> 31 - 23,
     SP |-> 31 - 12, EVT |-> 31 - 23]

aaf_SHIFT ==
    [FORMAT |-> 31 - 7, NSR |-> 31 - 11, CHAN_PER_FRAME |-> 31 - 23,
     SP |-> 31 - 19, EVT |-> 31 - 23]

aaf_MASK ==
    [FORMAT |-> Shl(BITMASK(8), aaf_SHIFT.FORMAT),
     NSR |-> Shl(BITMASK(4), aaf_SHIFT.NSR),
     CHAN_PER_FRAME |-> Shl(BITMASK(10), aaf_SHIFT.CHAN_PER_FRAME),
     BIT_DEPTH |-> BITMASK(8),
     SP |-> Shl(BITMASK(1), aaf_SHIFT.SP),
     EVT |-> Shl(BITMASK(4), aaf_SHIFT.EVT)]

\* The switch of get_field_value.
aaf_get_case(f) ==
    CASE f = "FORMAT" -> Case(aaf_MASK.FORMAT, aaf_SHIFT.FORMAT, avtp_stream_pdu.format_specific)
      [] f = "NSR" -> Case(aaf_MASK.NSR, aaf_SHIFT.NSR, avtp_stream_pdu.format_specific)
      [] f = "CHAN_PER_FRAME" -> Case(aaf_MASK.CHAN_PER_FRAME, aaf_SHIFT.CHAN_PER_FRAME, avtp_stream_pdu.format_specific)
      [] f = "BIT_DEPTH" -> Case(aaf_MASK.BIT_DEPTH, 0, avtp_stream_pdu.format_specific)
      [] f = "SP" -> Case(aaf_MASK.SP, aaf_SHIFT.SP, avtp_stream_pdu.packet_info)
      [] f = "EVT" -> Case(aaf_MASK.EVT, aaf_SHIFT.EVT, avtp_stream_pdu.packet_info)
      [] OTHER -> Default

aaf_get_field_value(p, field, out) ==
    With(aaf_get_case(Label(avtp_aaf_field, field)), LAMBDA c :
        IF ~c.ok THEN GetFailed(out)
        ELSE Got(out, BITMAP_GET_VALUE(LoadBE(p, c.ofs, 4), Trunc32(c.mask), c.shift)))

avtp_aaf_pdu_get(p, field, out) ==
    IF p = NULL \/ out = NULLV THEN GetFailed(out)
    ELSE LET f == Label(avtp_aaf_field, field)
         IN CASE f \in {"SV", "MR", "TV", "SEQ_NUM", "TU", "STREAM_DATA_LEN", "TIMESTAMP", "STREAM_ID"} ->
                    avtp_stream_pdu_get(p, field, out)
              [] f \in {"FORMAT", "NSR", "CHAN_PER_FRAME", "BIT_DEPTH", "SP", "EVT"} ->
                    aaf_get_field_value(p, field, out)
              [] OTHER -> GetFailed(out)

\* The switch of set_field_value.
aaf_set_case(f) ==
    CASE f = "FORMAT" -> Case(aaf_MASK.FORMAT, aaf_SHIFT.FORMAT, avtp_stream_pdu.format_specific)
      [] f = "NSR" -> Case(aaf_MASK.NSR, aaf_SHIFT.NSR, avtp_stream_pdu.format_specific)
      [] f = "CHAN_PER_FRAME" -> Case(aaf_MASK.CHAN_PER_FRAME, aaf_SHIFT.CHAN_PER_FRAME, avtp_stream_pdu.format_specific)
      [] f = "BIT_DEPTH" -> Case(aaf_MASK.BIT_DEPTH, 0, avtp_stream_pdu.format_specific)
      [] f = "SP" -> Case(aaf_MASK.SP, aaf_SHIFT.SP, avtp_stream_pdu.packet_info)
      [] f = "EVT" -> Case(aaf_MASK.EVT, aaf_SHIFT.EVT, avtp_stream_pdu.packet_info)
      [] OTHER -> Default

\* A faulty setter: the shifted value is not masked.
aaf_set_field_value_unmasked(p, field, v) ==
    With(aaf_set_case(Label(avtp_aaf_field, field)), LAMBDA c :
        IF ~c.ok THEN Failed(p)
        ELSE Done(put_unaligned_be32(
                 (get_unaligned_be32(p, c.ofs) \ c.mask) \cup Shl(Trunc32(v), c.shift),
                 p, c.ofs)))

\* A faulty setter: the word is not read first, so the other fields of the
\* word are cleared.
aaf_set_field_value_clears_word(p, field, v) ==
    With(aaf_set_case(Label(avtp_aaf_field, field)), LAMBDA c :
        IF ~c.ok THEN Failed(p)
        ELSE Done(put_unaligned_be32(
                 BITMAP_SET_VALUE({}, Trunc32(v), Trunc32(c.mask), c.shift),
                 p, c.ofs)))

\* val is a uint32_t parameter.
aaf_set_field_value(p, field, v) ==
    With(aaf_set_case(Label(avtp_aaf_field, field)), LAMBDA c :
        IF ~c.ok THEN Failed(p)
        ELSE Done(put_unaligned_be32(
                 BITMAP_SET_VALUE(get_unaligned_be32(p, c.ofs), Trunc32(v),
                                  Trunc32(c.mask), c.shift),
                 p, c.ofs)))

avtp_aaf_pdu_set(p, field, v) ==
    IF p = NULL THEN Failed(p)
    ELSE LET f == Label(avtp_aaf_field, field)
         IN CASE f \in {"SV", "MR", "TV", "SEQ_NUM", "TU", "STREAM_DATA_LEN", "TIMESTAMP", "STREAM_ID"} ->
                    avtp_stream_pdu_set(p, field, v)
              [] f \in {"FORMAT", "NSR", "CHAN_PER_FRAME", "BIT_DEPTH", "SP", "EVT"} ->
                    aaf_set_field_value(p, field, v)
              [] OTHER -> Failed(p)

avtp_aaf_pdu_init(p) ==
    IF p = NULL THEN Failed(p)
    ELSE Then(Then(
             avtp_pdu_set_subtype(memset0(p, avtp_stream_pdu.avtp_payload), Word(AVTP_SUBTYPE.AAF)),
             LAMBDA q : avtp_aaf_pdu_set(q, Enum(avtp_aaf_field, "SV"), Word(1))),
             LAMBDA q : Done(q))

(***************************************************************************)
(* avtp_crf.h, avtp_crf.c                                                  *)
(***************************************************************************)
avtp_crf_pdu ==
    [subtype_data |-> 0, stream_id |-> 4, packet_info |-> 12, crf_data |-> 20]

avtp_crf_field ==
    <<"SV", "MR", "FS", "TU", "SEQ_NUM", "TYPE", "STREAM_ID", "PULL",
      "BASE_FREQ", "CRF_DATA_LEN", "TIMESTAMP_INTERVAL", "MAX">>

\* A faulty table: SHIFT_BASE_FREQ written as (63 - 32), one bit too low.
crf_SHIFT_base_freq_bit32 ==
    [SV |-> 31 - 8, MR |-> 31 - 12, FS |-> 31 - 14, TU |-> 31 - 15,
     SEQ_NUM |-> 31 - 23, PULL |-> 63 - 2, BASE_FREQ |-> 63 - 32,
     CRF_DATA_LEN |-> 63 - 47]

crf_SHIFT ==
    [SV |-> 31 - 8, MR |-> 31 - 12, FS |-> 31 - 14, TU |-> 31 - 15,
     SEQ_NUM |-> 31 - 23, PULL |-> 63 - 2, BASE_FREQ |-> 63 - 31,
     CRF_DATA_LEN |-> 63 - 47]

crf_MASK ==
    [SV |-> Shl(BITMASK(1), crf_SHIFT.SV),
     MR |-> Shl(BITMASK(1), crf_SHIFT.MR),
     FS |-> Shl(BITMASK(1), crf_SHIFT.FS),
     TU |-> Shl(BITMASK(1), crf_SHIFT.TU),
     SEQ_NUM |-> Shl(BITMASK(8), crf_SHIFT.SEQ_NUM),
     TYPE |-> BITMASK(8),
     PULL |-> Shl(BITMASK(3), crf_SHIFT.PULL),
     BASE_FREQ |-> Shl(BITMASK(29), crf_SHIFT.BASE_FREQ),
     CRF_DATA_LEN |-> Shl(BITMASK(16), crf_SHIFT.CRF_DATA_LEN),
     TIMESTAMP_INTERVAL |-> BITMASK(16)]

\* The switch of get_field_value; the word read is 4 bytes of subtype_data
\* or the 8 bytes of packet_info.
crf_get_case(f) ==
    CASE f = "SV" -> Case(crf_MASK.SV, crf_SHIFT.SV, avtp_crf_pdu.subtype_data)
      [] f = "MR" -> Case(crf_MASK.MR, crf_SHIFT.MR, avtp_crf_pdu.subtype_data)
      [] f = "FS" -> Case(crf_MASK.FS, crf_SHIFT.FS, avtp_crf_pdu.subtype_data)
      [] f = "TU" -> Case(crf_MASK.TU, crf_SHIFT.TU, avtp_crf_pdu.subtype_data)
      [] f = "SEQ_NUM" -> Case(crf_MASK.SEQ_NUM, crf_SHIFT.SEQ_NUM, avtp_crf_pdu.subtype_data)
      [] f = "TYPE" -> Case(crf_MASK.TYPE, 0, avtp_crf_pdu.subtype_data)
      [] f = "PULL" -> Case(crf_MASK.PULL, crf_SHIFT.PULL, avtp_crf_pdu.packet_info)
      [] f = "BASE_FREQ" -> Case(crf_MASK.BASE_FREQ, crf_SHIFT.BASE_FREQ, avtp_crf_pdu.packet_info)
      [] f = "CRF_DATA_LEN" -> Case(crf_MASK.CRF_DATA_LEN, crf_SHIFT.CRF_DATA_LEN, avtp_crf_pdu.packet_info)
      [] f = "TIMESTAMP_INTERVAL" -> Case(crf_MASK.TIMESTAMP_INTERVAL, 0, avtp_crf_pdu.packet_info)
      [] OTHER -> Default

\* A faulty getter: packet_info is read as a 32-bit word.
crf_get_field_value_read32(p, field, out) ==
    With(crf_get_case(Label(avtp_crf_field, field)), LAMBDA c :
        IF ~c.ok THEN GetFailed(out)
        ELSE Got(out, BITMAP_GET_VALUE(LoadBE(p, c.ofs, 4), c.mask, c.shift)))

crf_get_field_value(p, field, out) ==
    With(crf_get_case(Label(avtp_crf_field, field)), LAMBDA c :
        IF ~c.ok THEN GetFailed(out)
        ELSE Got(out, BITMAP_GET_VALUE(
                LoadBE(p, c.ofs, IF c.ofs = avtp_crf_pdu.packet_info THEN 8 ELSE 4),
                c.mask, c.shift)))

\* A faulty getter: *val is cleared on the error path.
avtp_crf_pdu_get_clears_val(p, field, out) ==
    IF p = NULL \/ out = NULLV THEN GetFailed(out)
    ELSE LET f == Label(avtp_crf_field, field)
         IN CASE f \in {"SV", "MR", "FS", "TU", "SEQ_NUM", "TYPE", "PULL",
                        "BASE_FREQ", "CRF_DATA_LEN", "TIMESTAMP_INTERVAL"} ->
                    crf_get_field_value(p, field, out)
              [] f = "STREAM_ID" -> Got(out, LoadBE(p, avtp_crf_pdu.stream_id, 8))
              [] OTHER -> GetFailed({})

avtp_crf_pdu_get(p, field, out) ==
    IF p = NULL \/ out = NULLV THEN GetFailed(out)
    ELSE LET f == Label(avtp_crf_field, field)
         IN CASE f \in {"SV", "MR", "FS", "TU", "SEQ_NUM", "TYPE", "PULL",
                        "BASE_FREQ", "CRF_DATA_LEN", "TIMESTAMP_INTERVAL"} ->
                    crf_get_field_value(p, field, out)
              [] f = "STREAM_ID" -> Got(out, LoadBE(p, avtp_crf_pdu.stream_id, 8))
              [] OTHER -> GetFailed(out)

\* The switch of set_field_value_32.
crf_set_case_32(f) ==
    CASE f = "SV" -> Case(crf_MASK.SV, crf_SHIFT.SV, avtp_crf_pdu.subtype_data)
      [] f = "MR" -> Case(crf_MASK.MR, crf_SHIFT.MR, avtp_crf_pdu.subtype_data)
      [] f = "FS" -> Case(crf_MASK.FS, crf_SHIFT.FS, avtp_crf_pdu.subtype_data)
      [] f = "TU" -> Case(crf_MASK.TU, crf_SHIFT.TU, avtp_crf_pdu.subtype_data)
      [] f = "SEQ_NUM" -> Case(crf_MASK.SEQ_NUM, crf_SHIFT.SEQ_NUM, avtp_crf_pdu.subtype_data)
      [] f = "TYPE" -> Case(crf_MASK.TYPE, 0, avtp_crf_pdu.subtype_data)
      [] OTHER -> Default

crf_set_field_value_32(p, field, v) ==
    With(crf_set_case_32(Label(avtp_crf_field, field)), LAMBDA c :
        IF ~c.ok THEN Failed(p)
        ELSE Done(StoreBE(p, avtp_crf_pdu.subtype_data, 4,
                 Trunc32(BITMAP_SET_VALUE(LoadBE(p, avtp_crf_pdu.subtype_data, 4), v,
                                          Trunc32(c.mask), c.shift)))))

\* The switch of set_field_value_64.
crf_set_case_64(f) ==
    CASE f = "PULL" -> Case(crf_MASK.PULL, crf_SHIFT.PULL, avtp_crf_pdu.packet_info)
      [] f = "BASE_FREQ" -> Case(crf_MASK.BASE_FREQ, crf_SHIFT.BASE_FREQ, avtp_crf_pdu.packet_info)
      [] f = "CRF_DATA_LEN" -> Case(crf_MASK.CRF_DATA_LEN, crf_SHIFT.CRF_DATA_LEN, avtp_crf_pdu.packet_info)
      [] f = "TIMESTAMP_INTERVAL" -> Case(crf_MASK.TIMESTAMP_INTERVAL, 0, avtp_crf_pdu.packet_info)
      [] OTHER -> Default

crf_set_field_value_64(p, field, v) ==
    With(crf_set_case_64(Label(avtp_crf_field, field)), LAMBDA c :
        IF ~c.ok THEN Failed(p)
        ELSE Done(StoreBE(p, avtp_crf_pdu.packet_info, 8,
                 BITMAP_SET_VALUE(LoadBE(p, avtp_crf_pdu.packet_info, 8), v,
                                  c.mask, c.shift))))

avtp_crf_pdu_set(p, field, v) ==
    IF p = NULL THEN Failed(p)
    ELSE LET f == Label(avtp_crf_field, field)
         IN CASE f \in {"SV", "MR", "FS", "TU", "SEQ_NUM", "TYPE"} ->
                    crf_set_field_value_32(p, field, v)
              [] f \in {"PULL", "BASE_FREQ", "CRF_DATA_LEN", "TIMESTAMP_INTERVAL"} ->
                    crf_set_field_value_64(p, field, v)
              [] f = "STREAM_ID" -> Done(StoreBE(p, avtp_crf_pdu.stream_id, 8, v))
              [] OTHER -> Failed(p)

avtp_crf_pdu_init(p) ==
    IF p = NULL THEN Failed(p)
    ELSE Then(Then(
             avtp_pdu_set_subtype(memset0(p, avtp_crf_pdu.crf_data), Word(AVTP_SUBTYPE.CRF)),
             LAMBDA q : avtp_crf_pdu_set(q, Enum(avtp_crf_field, "SV"), Word(1))),
             LAMBDA q : Done(q))

(***************************************************************************)
(* avtp_cvf.h, avtp_cvf.c                                                  *)
(***************************************************************************)
avtp_cvf_h == [FORMAT_RFC |-> 2, FORMAT_SUBTYPE_JPEG2000 |-> 2]

\* A faulty enumeration: STREAM_ID and TIMESTAMP are not in the order of
\* enum avtp_stream_field.
avtp_cvf_field_timestamp_first ==
    <<"SV", "MR", "TV", "SEQ_NUM", "TU", "TIMESTAMP", "STREAM_ID",
      "STREAM_DATA_LEN", "FORMAT", "FORMAT_SUBTYPE", "M", "EVT", "H264_PTV",
      "H264_TIMESTAMP", "MAX">>

avtp_cvf_field ==
    <<"SV", "MR", "TV", "SEQ_NUM", "TU", "STREAM_ID", "TIMESTAMP",
      "STREAM_DATA_LEN", "FORMAT", "FORMAT_SUBTYPE", "M", "EVT", "H264_PTV",
      "H264_TIMESTAMP", "MAX">>

\* offsetof within avtp_payload
avtp_cvf_h264_payload == [h264_header |-> 0, h264_data |-> 4]

cvf_SHIFT ==
    [FORMAT |-> 31 - 7, FORMAT_SUBTYPE |-> 31 - 15, M |-> 31 - 19,
     EVT |-> 31 - 23, PTV |-> 31 - 18]

cvf_MASK ==
    [FORMAT |-> Shl(BITMASK(8), cvf_SHIFT.FORMAT),
     FORMAT_SUBTYPE |-> Shl(BITMASK(8), cvf_SHIFT.FORMAT_SUBTYPE),
     M |-> Shl(BITMASK(1), cvf_SHIFT.M),
     EVT |-> Shl(BITMASK(4), cvf_SHIFT.EVT),
     PTV |-> Shl(BITMASK(1), cvf_SHIFT.PTV)]

\* The switch of get_field_value.
cvf_get_case(f) ==
    CASE f = "FORMAT" -> Case(cvf_MASK.FORMAT, cvf_SHIFT.FORMAT, avtp_stream_pdu.format_specific)
      [] f = "FORMAT_SUBTYPE" -> Case(cvf_MASK.FORMAT_SUBTYPE, cvf_SHIFT.FORMAT_SUBTYPE, avtp_stream_pdu.format_specific)
      [] f = "M" -> Case(cvf_MASK.M, cvf_SHIFT.M, avtp_stream_pdu.packet_info)
      [] f = "EVT" -> Case(cvf_MASK.EVT, cvf_SHIFT.EVT, avtp_stream_pdu.packet_info)
      [] f = "H264_PTV" -> Case(cvf_MASK.PTV, cvf_SHIFT.PTV, avtp_stream_pdu.packet_info)
      [] OTHER -> Default

cvf_get_field_value(p, field, out) ==
    With(cvf_get_case(Label(avtp_cvf_field, field)), LAMBDA c :
        IF ~c.ok THEN GetFailed(out)
        ELSE Got(out, BITMAP_GET_VALUE(LoadBE(p, c.ofs, 4), Trunc32(c.mask), c.shift)))

avtp_cvf_pdu_get(p, field, out) ==
    IF p = NULL \/ out = NULLV THEN GetFailed(out)
    ELSE LET f == Label(avtp_cvf_field, field)
         IN CASE f \in {"SV", "MR", "TV", "SEQ_NUM", "TU", "STREAM_DATA_LEN", "TIMESTAMP", "STREAM_ID"} ->
                    avtp_stream_pdu_get(p, field, out)
              [] f \in {"FORMAT", "FORMAT_SUBTYPE", "M", "EVT", "H264_PTV"} ->
                    cvf_get_field_value(p, field, out)
              [] f = "H264_TIMESTAMP" ->
                    Got(out, LoadBE(p, avtp_stream_pdu.avtp_payload
                                       + avtp_cvf_h264_payload.h264_header, 4))
              [] OTHER -> GetFailed(out)

\* The switch of set_field_value.
cvf_set_case(f) ==
    CASE f = "FORMAT" -> Case(cvf_MASK.FORMAT, cvf_SHIFT.FORMAT, avtp_stream_pdu.format_specific)
      [] f = "FORMAT_SUBTYPE" -> Case(cvf_MASK.FORMAT_SUBTYPE, cvf_SHIFT.FORMAT_SUBTYPE, avtp_stream_pdu.format_specific)
      [] f = "M" -> Case(cvf_MASK.M, cvf_SHIFT.M, avtp_stream_pdu.packet_info)
      [] f = "EVT" -> Case(cvf_MASK.EVT, cvf_SHIFT.EVT, avtp_stream_pdu.packet_info)
      [] f = "H264_PTV" -> Case(cvf_MASK.PTV, cvf_SHIFT.PTV, avtp_stream_pdu.packet_info)
      [] OTHER -> Default

\* A faulty setter: the word is read without ntohl on a little-endian host.
cvf_set_field_value_no_ntohl(p, field, v) ==
    LET c == cvf_set_case(Label(avtp_cvf_field, field))
        raw == WordOfBytes(<<p[c.ofs + 3], p[c.ofs + 2], p[c.ofs + 1], p[c.ofs]>>)
    IN IF ~c.ok THEN Failed(p)
       ELSE Done(StoreBE(p, c.ofs, 4,
                Trunc32(BITMAP_SET_VALUE(raw, Trunc32(v), Trunc32(c.mask), c.shift))))

\* A faulty setter: the word is written without htonl on a little-endian host.
cvf_set_field_value_no_htonl(p, field, v) ==
    LET c == cvf_set_case(Label(avtp_cvf_field, field))
        w == Trunc32(BITMAP_SET_VALUE(LoadBE(p, c.ofs, 4), Trunc32(v),
                                      Trunc32(c.mask), c.shift))
    IN IF ~c.ok THEN Failed(p)
       ELSE Done([i \in DOMAIN p |->
                    IF i \in c.ofs..(c.ofs + 3) THEN ByteOfWord(w, i - c.ofs) ELSE p[i]])

\* val is a uint32_t parameter.
cvf_set_field_value(p, field, v) ==
    With(cvf_set_case(Label(avtp_cvf_field, field)), LAMBDA c :
        IF ~c.ok THEN Failed(p)
        ELSE Done(StoreBE(p, c.ofs, 4,
                 Trunc32(BITMAP_SET_VALUE(LoadBE(p, c.ofs, 4), Trunc32(v),
                                          Trunc32(c.mask), c.shift)))))

avtp_cvf_pdu_set(p, field, v) ==
    IF p = NULL THEN Failed(p)
    ELSE LET f == Label(avtp_cvf_field, field)
         IN CASE f \in {"SV", "MR", "TV", "SEQ_NUM", "TU", "STREAM_DATA_LEN", "TIMESTAMP", "STREAM_ID"} ->
                    avtp_stream_pdu_set(p, field, v)
              [] f \in {"FORMAT", "FORMAT_SUBTYPE", "M", "EVT", "H264_PTV"} ->
                    cvf_set_field_value(p, field, v)
              [] f = "H264_TIMESTAMP" ->
                    Done(StoreBE(p, avtp_stream_pdu.avtp_payload
                                    + avtp_cvf_h264_payload.h264_header, 4, Trunc32(v)))
              [] OTHER -> Failed(p)

\* A faulty initializer: the memset also clears the H.264 sub-header.
avtp_cvf_pdu_init_clears_h264_header(p, subtype) ==
    IF p = NULL THEN Failed(p)
    ELSE IF subtype > avtp_cvf_h.FORMAT_SUBTYPE_JPEG2000 THEN Failed(p)
    ELSE Then(Then(Then(Then(
             avtp_pdu_set_subtype(memset0(p, avtp_stream_pdu.avtp_payload + avtp_cvf_h264_payload.h264_data), Word(AVTP_SUBTYPE.CVF)),
             LAMBDA q : avtp_cvf_pdu_set(q, Enum(avtp_cvf_field, "SV"), Word(1))),
             LAMBDA q : avtp_cvf_pdu_set(q, Enum(avtp_cvf_field, "FORMAT"), Word(avtp_cvf_h.FORMAT_RFC))),
             LAMBDA q : avtp_cvf_pdu_set(q, Enum(avtp_cvf_field, "FORMAT_SUBTYPE"), Word(subtype))),
             LAMBDA q : Done(q))

\* subtype is a uint8_t parameter.
avtp_cvf_pdu_init(p, subtype) ==
    IF p = NULL THEN Failed(p)
    ELSE IF subtype > avtp_cvf_h.FORMAT_SUBTYPE_JPEG2000 THEN Failed(p)
    ELSE Then(Then(Then(Then(
             avtp_pdu_set_subtype(memset0(p, avtp_stream_pdu.avtp_payload), Word(AVTP_SUBTYPE.CVF)),
             LAMBDA q : avtp_cvf_pdu_set(q, Enum(avtp_cvf_field, "SV"), Word(1))),
             LAMBDA q : avtp_cvf_pdu_set(q, Enum(avtp_cvf_field, "FORMAT"), Word(avtp_cvf_h.FORMAT_RFC))),
             LAMBDA q : avtp_cvf_pdu_set(q, Enum(avtp_cvf_field, "FORMAT_SUBTYPE"), Word(subtype))),
             LAMBDA q : Done(q))

(***************************************************************************)
(* avtp_ieciidc.h, avtp_ieciidc.c                                          *)
(***************************************************************************)
avtp_ieciidc_field ==
    <<"SV", "MR", "TV", "SEQ_NUM", "TU", "STREAM_ID", "TIMESTAMP",
      "STREAM_DATA_LEN", "GV", "GATEWAY_INFO", "TAG", "CHANNEL", "TCODE",
      "SY", "CIP_QI_1", "CIP_QI_2", "CIP_SID", "CIP_DBS", "CIP_FN",
      "CIP_QPC", "CIP_SPH", "CIP_DBC", "CIP_FMT", "CIP_SYT", "CIP_TSF",
      "CIP_EVT", "CIP_SFC", "CIP_N", "CIP_ND", "CIP_NO_DATA", "MAX">>

\* offsetof within avtp_payload
avtp_ieciidc_cip_payload == [cip_1 |-> 0, cip_2 |-> 4, cip_data_payload |-> 8]

\* &pay->cip_1, &pay->cip_2 with pay = pdu->avtp_payload
ieciidc_cip_1 == avtp_stream_pdu.avtp_payload + avtp_ieciidc_cip_payload.cip_1
\* A faulty address: cip_2 fields read and written in cip_1.
ieciidc_cip_2_in_cip_1 == avtp_stream_pdu.avtp_payload + avtp_ieciidc_cip_payload.cip_1
ieciidc_cip_2 == avtp_stream_pdu.avtp_payload + avtp_ieciidc_cip_payload.cip_2

ieciidc_SHIFT ==
    [GV |-> 31 - 14, TAG |-> 31 - 17, CHANNEL |-> 31 - 23,
     TCODE |-> 31 - 27, QI_1 |-> 31 - 1, QI_2 |-> 31 - 1, SID |-> 31 - 7,
     DBS |-> 31 - 15, FN |-> 31 - 17, QPC |-> 31 - 20, SPH |-> 31 - 21,
     FMT |-> 31 - 7, TSF |-> 31 - 8, EVT |-> 31 - 11, SFC |-> 31 - 15,
     N |-> 31 - 12, NO_DATA |-> 31 - 15, ND |-> 31 - 8]

ieciidc_MASK ==
    [GV |-> Shl(BITMASK(1), ieciidc_SHIFT.GV),
     TAG |-> Shl(BITMASK(2), ieciidc_SHIFT.TAG),
     CHANNEL |-> Shl(BITMASK(6), ieciidc_SHIFT.CHANNEL),
     TCODE |-> Shl(BITMASK(4), ieciidc_SHIFT.TCODE),
     SY |-> BITMASK(4),
     QI_1 |-> Shl(BITMASK(2), ieciidc_SHIFT.QI_1),
     QI_2 |-> Shl(BITMASK(2), ieciidc_SHIFT.QI_2),
     SID |-> Shl(BITMASK(6), ieciidc_SHIFT.SID),
     DBS |-> Shl(BITMASK(8), ieciidc_SHIFT.DBS),
     FN |-> Shl(BITMASK(2), ieciidc_SHIFT.FN),
     QPC |-> Shl(BITMASK(3), ieciidc_SHIFT.QPC),
     SPH |-> Shl(BITMASK(1), ieciidc_SHIFT.SPH),
     DBC |-> BITMASK(8),
     FMT |-> Shl(BITMASK(6), ieciidc_SHIFT.FMT),
     SYT |-> BITMASK(16),
     TSF |-> Shl(BITMASK(1), ieciidc_SHIFT.TSF),
     EVT |-> Shl(BITMASK(2), ieciidc_SHIFT.EVT),
     SFC |-> Shl(BITMASK(3), ieciidc_SHIFT.SFC),
     N |-> Shl(BITMASK(1), ieciidc_SHIFT.N),
     NO_DATA |-> Shl(BITMASK(8), ieciidc_SHIFT.NO_DATA),
     ND |-> Shl(BITMASK(1), ieciidc_SHIFT.ND)]

\* The switch of get_field_value.
ieciidc_get_case(f) ==
    CASE f = "GV" -> Case(ieciidc_MASK.GV, ieciidc_SHIFT.GV, avtp_stream_pdu.subtype_data)
      [] f = "TAG" -> Case(ieciidc_MASK.TAG, ieciidc_SHIFT.TAG, avtp_stream_pdu.packet_info)
      [] f = "CHANNEL" -> Case(ieciidc_MASK.CHANNEL, ieciidc_SHIFT.CHANNEL, avtp_stream_pdu.packet_info)
      [] f = "TCODE" -> Case(ieciidc_MASK.TCODE, ieciidc_SHIFT.TCODE, avtp_stream_pdu.packet_info)
      [] f = "SY" -> Case(ieciidc_MASK.SY, 0, avtp_stream_pdu.packet_info)
      [] f = "CIP_QI_1" -> Case(ieciidc_MASK.QI_1, ieciidc_SHIFT.QI_1, ieciidc_cip_1)
      [] f = "CIP_QI_2" -> Case(ieciidc_MASK.QI_2, ieciidc_SHIFT.QI_2, ieciidc_cip_2)
      [] f = "CIP_SID" -> Case(ieciidc_MASK.SID, ieciidc_SHIFT.SID, ieciidc_cip_1)
      [] f = "CIP_DBS" -> Case(ieciidc_MASK.DBS, ieciidc_SHIFT.DBS, ieciidc_cip_1)
      [] f = "CIP_FN" -> Case(ieciidc_MASK.FN, ieciidc_SHIFT.FN, ieciidc_cip_1)
      [] f = "CIP_QPC" -> Case(ieciidc_MASK.QPC, ieciidc_SHIFT.QPC, ieciidc_cip_1)
      [] f = "CIP_SPH" -> Case(ieciidc_MASK.SPH, ieciidc_SHIFT.SPH, ieciidc_cip_1)
      [] f = "CIP_DBC" -> Case(ieciidc_MASK.DBC, 0, ieciidc_cip_1)
      [] f = "CIP_FMT" -> Case(ieciidc_MASK.FMT, ieciidc_SHIFT.FMT, ieciidc_cip_2)
      [] f = "CIP_TSF" -> Case(ieciidc_MASK.TSF, ieciidc_SHIFT.TSF, ieciidc_cip_2)
      [] f = "CIP_EVT" -> Case(ieciidc_MASK.EVT, ieciidc_SHIFT.EVT, ieciidc_cip_2)
      [] f = "CIP_SFC" -> Case(ieciidc_MASK.SFC, ieciidc_SHIFT.SFC, ieciidc_cip_2)
      [] f = "CIP_N" -> Case(ieciidc_MASK.N, ieciidc_SHIFT.N, ieciidc_cip_2)
      [] f = "CIP_ND" -> Case(ieciidc_MASK.ND, ieciidc_SHIFT.ND, ieciidc_cip_2)
      [] f = "CIP_NO_DATA" -> Case(ieciidc_MASK.NO_DATA, ieciidc_SHIFT.NO_DATA, ieciidc_cip_2)
      [] f = "CIP_SYT" -> Case(ieciidc_MASK.SYT, 0, ieciidc_cip_2)
      [] OTHER -> Default

ieciidc_get_field_value(p, field, out) ==
    With(ieciidc_get_case(Label(avtp_ieciidc_field, field)), LAMBDA c :
        IF ~c.ok THEN GetFailed(out)
        ELSE Got(out, BITMAP_GET_VALUE(LoadBE(p, c.ofs, 4), Trunc32(c.mask), c.shift)))

\* The case labels that avtp_ieciidc_pdu_get / _set hand to get_field_value /
\* set_field_value.
ieciidc_local_fields ==
    {"GV", "TAG", "CHANNEL", "TCODE", "SY", "CIP_QI_1", "CIP_QI_2",
     "CIP_SID", "CIP_DBS", "CIP_FN", "CIP_QPC", "CIP_SPH", "CIP_DBC",
     "CIP_FMT", "CIP_TSF", "CIP_EVT", "CIP_SFC", "CIP_N", "CIP_ND",
     "CIP_NO_DATA", "CIP_SYT"}

avtp_ieciidc_pdu_get(p, field, out) ==
    IF p = NULL \/ out = NULLV THEN GetFailed(out)
    ELSE LET f == Label(avtp_ieciidc_field, field)
         IN CASE f \in {"SV", "MR", "TV", "SEQ_NUM", "TU", "STREAM_DATA_LEN", "TIMESTAMP", "STREAM_ID"} ->
                    avtp_stream_pdu_get(p, field, out)
              [] f \in ieciidc_local_fields -> ieciidc_get_field_value(p, field, out)
              [] f = "GATEWAY_INFO" ->
                    Got(out, LoadBE(p, avtp_stream_pdu.format_specific, 4))
              [] OTHER -> GetFailed(out)

\* The switch of set_field_value.
ieciidc_set_case(f) ==
    CASE f = "GV" -> Case(ieciidc_MASK.GV, ieciidc_SHIFT.GV, avtp_stream_pdu.subtype_data)
      [] f = "TAG" -> Case(ieciidc_MASK.TAG, ieciidc_SHIFT.TAG, avtp_stream_pdu.packet_info)
      [] f = "CHANNEL" -> Case(ieciidc_MASK.CHANNEL, ieciidc_SHIFT.CHANNEL, avtp_stream_pdu.packet_info)
      [] f = "TCODE" -> Case(ieciidc_MASK.TCODE, ieciidc_SHIFT.TCODE, avtp_stream_pdu.packet_info)
      [] f = "SY" -> Case(ieciidc_MASK.SY, 0, avtp_stream_pdu.packet_info)
      [] f = "CIP_QI_1" -> Case(ieciidc_MASK.QI_1, ieciidc_SHIFT.QI_1, ieciidc_cip_1)
      [] f = "CIP_QI_2" -> Case(ieciidc_MASK.QI_2, ieciidc_SHIFT.QI_2, ieciidc_cip_2)
      [] f = "CIP_SID" -> Case(ieciidc_MASK.SID, ieciidc_SHIFT.SID, ieciidc_cip_1)
      [] f = "CIP_DBS" -> Case(ieciidc_MASK.DBS, ieciidc_SHIFT.DBS, ieciidc_cip_1)
      [] f = "CIP_FN" -> Case(ieciidc_MASK.FN, ieciidc_SHIFT.FN, ieciidc_cip_1)
      [] f = "CIP_QPC" -> Case(ieciidc_MASK.QPC, ieciidc_SHIFT.QPC, ieciidc_cip_1)
      [] f = "CIP_SPH" -> Case(ieciidc_MASK.SPH, ieciidc_SHIFT.SPH, ieciidc_cip_1)
      [] f = "CIP_DBC" -> Case(ieciidc_MASK.DBC, 0, ieciidc_cip_1)
      [] f = "CIP_FMT" -> Case(ieciidc_MASK.FMT, ieciidc_SHIFT.FMT, ieciidc_cip_2)
      [] f = "CIP_TSF" -> Case(ieciidc_MASK.TSF, ieciidc_SHIFT.TSF, ieciidc_cip_2)
      [] f = "CIP_EVT" -> Case(ieciidc_MASK.EVT, ieciidc_SHIFT.EVT, ieciidc_cip_2)
      [] f = "CIP_SFC" -> Case(ieciidc_MASK.SFC, ieciidc_SHIFT.SFC, ieciidc_cip_2)
      [] f = "CIP_N" -> Case(ieciidc_MASK.N, ieciidc_SHIFT.N, ieciidc_cip_2)
      [] f = "CIP_ND" -> Case(ieciidc_MASK.ND, ieciidc_SHIFT.ND, ieciidc_cip_2)
      [] f = "CIP_NO_DATA" -> Case(ieciidc_MASK.NO_DATA, ieciidc_SHIFT.NO_DATA, ieciidc_cip_2)
      [] f = "CIP_SYT" -> Case(ieciidc_MASK.SYT, 0, ieciidc_cip_2)
      [] OTHER -> Default

ieciidc_set_field_value(p, field, v) ==
    With(ieciidc_set_case(Label(avtp_ieciidc_field, field)), LAMBDA c :
        IF ~c.ok THEN Failed(p)
        ELSE Done(put_unaligned_be32(
                 BITMAP_SET_VALUE(get_unaligned_be32(p, c.ofs), v, Trunc32(c.mask), c.shift),
                 p, c.ofs)))

avtp_ieciidc_pdu_set(p, field, v) ==
    IF p = NULL THEN Failed(p)
    ELSE LET f == Label(avtp_ieciidc_field, field)
         IN CASE f \in {"SV", "MR", "TV", "SEQ_NUM", "TU", "STREAM_DATA_LEN", "TIMESTAMP", "STREAM_ID"} ->
                    avtp_stream_pdu_set(p, field, v)
              [] f \in ieciidc_local_fields -> ieciidc_set_field_value(p, field, v)
              [] f = "GATEWAY_INFO" ->
                    Done(StoreBE(p, avtp_stream_pdu.format_specific, 4, Trunc32(v)))
              [] OTHER -> Failed(p)

\* A faulty initializer: the header is cleared before tag is checked.
avtp_ieciidc_pdu_init_memset_first(p, tag) ==
    IF p = NULL THEN Failed(p)
    ELSE IF tag > 1 THEN Failed(memset0(p, avtp_stream_pdu.avtp_payload))
    ELSE Then(Then(Then(Then(
             avtp_pdu_set_subtype(memset0(p, avtp_stream_pdu.avtp_payload), Word(AVTP_SUBTYPE.IIDC_61883)),
             LAMBDA q : avtp_stream_pdu_set(q, Enum(avtp_stream_field, "SV"), Word(1))),
             LAMBDA q : avtp_ieciidc_pdu_set(q, Enum(avtp_ieciidc_field, "TCODE"), Word(10))),
             LAMBDA q : avtp_ieciidc_pdu_set(q, Enum(avtp_ieciidc_field, "TAG"), Word(tag))),
             LAMBDA q : Done(q))

\* tag is a uint8_t parameter.
avtp_ieciidc_pdu_init(p, tag) ==
    IF p = NULL \/ tag > 1 THEN Failed(p)
    ELSE Then(Then(Then(Then(
             avtp_pdu_set_subtype(memset0(p, avtp_stream_pdu.avtp_payload), Word(AVTP_SUBTYPE.IIDC_61883)),
             LAMBDA q : avtp_stream_pdu_set(q, Enum(avtp_stream_field, "SV"), Word(1))),
             LAMBDA q : avtp_ieciidc_pdu_set(q, Enum(avtp_ieciidc_field, "TCODE"), Word(10))),
             LAMBDA q : avtp_ieciidc_pdu_set(q, Enum(avtp_ieciidc_field, "TAG"), Word(tag))),
             LAMBDA q : Done(q))

(***************************************************************************)
(* avtp_rvf.h, avtp_rvf.c                                                  *)
(***************************************************************************)
avtp_rvf_field ==
    <<"SV", "MR", "TV", "SEQ_NUM", "TU", "STREAM_ID", "TIMESTAMP",
      "STREAM_DATA_LEN", "ACTIVE_PIXELS", "TOTAL_LINES", "AP", "F", "EF",
      "EVT", "PD", "I", "RAW_PIXEL_DEPTH", "RAW_PIXEL_FORMAT",
      "RAW_FRAME_RATE", "RAW_COLORSPACE", "RAW_NUM_LINES", "RAW_I_SEQ_NUM",
      "RAW_LINE_NUMBER", "MAX">>

\* offsetof within avtp_payload
avtp_rvf_payload == [raw_header |-> 0, raw_data |-> 8]

\* &pay->raw_header with pay = pdu->avtp_payload
rvf_raw_header == avtp_stream_pdu.avtp_payload + avtp_rvf_payload.raw_header

rvf_SHIFT ==
    [ACTIVE_PIXELS |-> 31 - 15, TOTAL_LINES |-> 31 - 31, AP |-> 31 - 16,
     F |-> 31 - 18, EF |-> 31 - 19, EVT |-> 31 - 23, PD |-> 31 - 24,
     I |-> 31 - 25, RAW_PIXEL_DEPTH |-> 63 - 11,
     RAW_PIXEL_FORMAT |-> 63 - 15, RAW_FRAME_RATE |-> 63 - 23,
     RAW_COLORSPACE |-> 63 - 27, RAW_NUM_LINES |-> 63 - 31,
     RAW_I_SEQ_NUM |-> 63 - 47, RAW_LINE_NUMBER |-> 63 - 63]

rvf_MASK ==
    [ACTIVE_PIXELS |-> Shl(BITMASK(16), rvf_SHIFT.ACTIVE_PIXELS),
     TOTAL_LINES |-> Shl(BITMASK(16), rvf_SHIFT.TOTAL_LINES),
     AP |-> Shl(BITMASK(1), rvf_SHIFT.AP),
     F |-> Shl(BITMASK(1), rvf_SHIFT.F),
     EF |-> Shl(BITMASK(1), rvf_SHIFT.EF),
     EVT |-> Shl(BITMASK(4), rvf_SHIFT.EVT),
     PD |-> Shl(BITMASK(1), rvf_SHIFT.PD),
     I |-> Shl(BITMASK(1), rvf_SHIFT.I),
     RAW_PIXEL_DEPTH |-> Shl(BITMASK(4), rvf_SHIFT.RAW_PIXEL_DEPTH),
     RAW_PIXEL_FORMAT |-> Shl(BITMASK(4), rvf_SHIFT.RAW_PIXEL_FORMAT),
     RAW_FRAME_RATE |-> Shl(BITMASK(8), rvf_SHIFT.RAW_FRAME_RATE),
     RAW_COLORSPACE |-> Shl(BITMASK(4), rvf_SHIFT.RAW_COLORSPACE),
     RAW_NUM_LINES |-> Shl(BITMASK(4), rvf_SHIFT.RAW_NUM_LINES),
     RAW_I_SEQ_NUM |-> Shl(BITMASK(8), rvf_SHIFT.RAW_I_SEQ_NUM),
     RAW_LINE_NUMBER |-> Shl(BITMASK(16), rvf_SHIFT.RAW_LINE_NUMBER)]

\* The switch of get_field_value.
rvf_get_case(f) ==
    CASE f = "ACTIVE_PIXELS" -> Case(rvf_MASK.ACTIVE_PIXELS, rvf_SHIFT.ACTIVE_PIXELS, avtp_stream_pdu.format_specific)
      [] f = "TOTAL_LINES" -> Case(rvf_MASK.TOTAL_LINES, rvf_SHIFT.TOTAL_LINES, avtp_stream_pdu.format_specific)
      [] f = "AP" -> Case(rvf_MASK.AP, rvf_SHIFT.AP, avtp_stream_pdu.packet_info)
      [] f = "F" -> Case(rvf_MASK.F, rvf_SHIFT.F, avtp_stream_pdu.packet_info)
      [] f = "EF" -> Case(rvf_MASK.EF, rvf_SHIFT.EF, avtp_stream_pdu.packet_info)
      [] f = "EVT" -> Case(rvf_MASK.EVT, rvf_SHIFT.EVT, avtp_stream_pdu.packet_info)
      [] f = "PD" -> Case(rvf_MASK.PD, rvf_SHIFT.PD, avtp_stream_pdu.packet_info)
      [] f = "I" -> Case(rvf_MASK.I, rvf_SHIFT.I, avtp_stream_pdu.packet_info)
      [] OTHER -> Default

rvf_get_field_value(p, field, out) ==
    With(rvf_get_case(Label(avtp_rvf_field, field)), LAMBDA c :
        IF ~c.ok THEN GetFailed(out)
        ELSE Got(out, BITMAP_GET_VALUE(LoadBE(p, c.ofs, 4), Trunc32(c.mask), c.shift)))

\* The switch of get_raw_field_value.
rvf_get_raw_case(f) ==
    CASE f = "RAW_PIXEL_DEPTH" -> Case(rvf_MASK.RAW_PIXEL_DEPTH, rvf_SHIFT.RAW_PIXEL_DEPTH, rvf_raw_header)
      [] f = "RAW_PIXEL_FORMAT" -> Case(rvf_MASK.RAW_PIXEL_FORMAT, rvf_SHIFT.RAW_PIXEL_FORMAT, rvf_raw_header)
      [] f = "RAW_FRAME_RATE" -> Case(rvf_MASK.RAW_FRAME_RATE, rvf_SHIFT.RAW_FRAME_RATE, rvf_raw_header)
      [] f = "RAW_COLORSPACE" -> Case(rvf_MASK.RAW_COLORSPACE, rvf_SHIFT.RAW_COLORSPACE, rvf_raw_header)
      [] f = "RAW_NUM_LINES" -> Case(rvf_MASK.RAW_NUM_LINES, rvf_SHIFT.RAW_NUM_LINES, rvf_raw_header)
      [] f = "RAW_I_SEQ_NUM" -> Case(rvf_MASK.RAW_I_SEQ_NUM, rvf_SHIFT.RAW_I_SEQ_NUM, rvf_raw_header)
      [] f = "RAW_LINE_NUMBER" -> Case(rvf_MASK.RAW_LINE_NUMBER, rvf_SHIFT.RAW_LINE_NUMBER, rvf_raw_header)
      [] OTHER -> Default

\* bitmap is the raw header already converted to host order.
rvf_get_raw_field_value(bitmap, field, out) ==
    With(rvf_get_raw_case(Label(avtp_rvf_field, field)), LAMBDA c :
        IF ~c.ok THEN GetFailed(out)
        ELSE Got(out, BITMAP_GET_VALUE(bitmap, c.mask, c.shift)))

rvf_header_fields == {"ACTIVE_PIXELS", "TOTAL_LINES", "AP", "F", "EF", "EVT", "PD", "I"}
rvf_raw_fields ==
    {"RAW_PIXEL_DEPTH", "RAW_PIXEL_FORMAT", "RAW_FRAME_RATE", "RAW_COLORSPACE",
     "RAW_NUM_LINES", "RAW_I_SEQ_NUM", "RAW_LINE_NUMBER"}

avtp_rvf_pdu_get(p, field, out) ==
    IF p = NULL \/ out = NULLV THEN GetFailed(out)
    ELSE LET f == Label(avtp_rvf_field, field)
         IN CASE f \in {"SV", "MR", "TV", "SEQ_NUM", "TU", "STREAM_DATA_LEN", "TIMESTAMP", "STREAM_ID"} ->
                    avtp_stream_pdu_get(p, field, out)
              [] f \in rvf_header_fields -> rvf_get_field_value(p, field, out)
              [] f \in rvf_raw_fields ->
                    rvf_get_raw_field_value(LoadBE(p, rvf_raw_header, 8), field, out)
              [] OTHER -> GetFailed(out)

\* The switch of set_field_value.
rvf_set_case(f) ==
    CASE f = "ACTIVE_PIXELS" -> Case(rvf_MASK.ACTIVE_PIXELS, rvf_SHIFT.ACTIVE_PIXELS, avtp_stream_pdu.format_specific)
      [] f = "TOTAL_LINES" -> Case(rvf_MASK.TOTAL_LINES, rvf_SHIFT.TOTAL_LINES, avtp_stream_pdu.format_specific)
      [] f = "AP" -> Case(rvf_MASK.AP, rvf_SHIFT.AP, avtp_stream_pdu.packet_info)
      [] f = "F" -> Case(rvf_MASK.F, rvf_SHIFT.F, avtp_stream_pdu.packet_info)
      [] f = "EF" -> Case(rvf_MASK.EF, rvf_SHIFT.EF, avtp_stream_pdu.packet_info)
      [] f = "EVT" -> Case(rvf_MASK.EVT, rvf_SHIFT.EVT, avtp_stream_pdu.packet_info)
      [] f = "PD" -> Case(rvf_MASK.PD, rvf_SHIFT.PD, avtp_stream_pdu.packet_info)
      [] f = "I" -> Case(rvf_MASK.I, rvf_SHIFT.I, avtp_stream_pdu.packet_info)
      [] OTHER -> Default

\* val is a uint32_t parameter.
rvf_set_field_value(p, field, v) ==
    With(rvf_set_case(Label(avtp_rvf_field, field)), LAMBDA c :
        IF ~c.ok THEN Failed(p)
        ELSE Done(put_unaligned_be32(
                 BITMAP_SET_VALUE(get_unaligned_be32(p, c.ofs), Trunc32(v),
                                  Trunc32(c.mask), c.shift),
                 p, c.ofs)))

\* The switch of set_raw_field_value.
rvf_set_raw_case(f) ==
    CASE f = "RAW_PIXEL_DEPTH" -> Case(rvf_MASK.RAW_PIXEL_DEPTH, rvf_SHIFT.RAW_PIXEL_DEPTH, rvf_raw_header)
      [] f = "RAW_PIXEL_FORMAT" -> Case(rvf_MASK.RAW_PIXEL_FORMAT, rvf_SHIFT.RAW_PIXEL_FORMAT, rvf_raw_header)
      [] f = "RAW_FRAME_RATE" -> Case(rvf_MASK.RAW_FRAME_RATE, rvf_SHIFT.RAW_FRAME_RATE, rvf_raw_header)
      [] f = "RAW_COLORSPACE" -> Case(rvf_MASK.RAW_COLORSPACE, rvf_SHIFT.RAW_COLORSPACE, rvf_raw_header)
      [] f = "RAW_NUM_LINES" -> Case(rvf_MASK.RAW_NUM_LINES, rvf_SHIFT.RAW_NUM_LINES, rvf_raw_header)
      [] f = "RAW_I_SEQ_NUM" -> Case(rvf_MASK.RAW_I_SEQ_NUM, rvf_SHIFT.RAW_I_SEQ_NUM, rvf_raw_header)
      [] f = "RAW_LINE_NUMBER" -> Case(rvf_MASK.RAW_LINE_NUMBER, rvf_SHIFT.RAW_LINE_NUMBER, rvf_raw_header)
      [] OTHER -> Default

rvf_set_raw_field_value(p, field, v) ==
    With(rvf_set_raw_case(Label(avtp_rvf_field, field)), LAMBDA c :
        IF ~c.ok THEN Failed(p)
        ELSE Done(StoreBE(p, rvf_raw_header, 8,
                 BITMAP_SET_VALUE(LoadBE(p, rvf_raw_header, 8), v, c.mask, c.shift))))

avtp_rvf_pdu_set(p, field, v) ==
    IF p = NULL THEN Failed(p)
    ELSE LET f == Label(avtp_rvf_field, field)
         IN CASE f \in {"SV", "MR", "TV", "SEQ_NUM", "TU", "STREAM_DATA_LEN", "TIMESTAMP", "STREAM_ID"} ->
                    avtp_stream_pdu_set(p, field, v)
              [] f \in rvf_header_fields -> rvf_set_field_value(p, field, v)
              [] f \in rvf_raw_fields -> rvf_set_raw_field_value(p, field, v)
              [] OTHER -> Failed(p)

\* A faulty initializer: the memset of the header is missing.
avtp_rvf_pdu_init_no_memset(p) ==
    IF p = NULL THEN Failed(p)
    ELSE Then(Then(
             avtp_pdu_set_subtype(p, Word(AVTP_SUBTYPE.RVF)),
             LAMBDA q : avtp_rvf_pdu_set(q, Enum(avtp_rvf_field, "SV"), Word(1))),
             LAMBDA q : Done(q))

avtp_rvf_pdu_init(p) ==
    IF p = NULL THEN Failed(p)
    ELSE Then(Then(
             avtp_pdu_set_subtype(memset0(p, avtp_stream_pdu.avtp_payload), Word(AVTP_SUBTYPE.RVF)),
             LAMBDA q : avtp_rvf_pdu_set(q, Enum(avtp_rvf_field, "SV"), Word(1))),
             LAMBDA q : Done(q))

(***************************************************************************)
(* avtp_vsf_stream.h, avtp_vsf_stream.c                                    *)
(***************************************************************************)
avtp_vsf_stream_field ==
    <<"SV", "MR", "TV", "SEQ_NUM", "TU", "STREAM_ID", "TIMESTAMP",
      "STREAM_DATA_LEN", "VENDOR_ID", "MAX">>

vsf_SHIFT == [VENDOR_ID_1 |-> 31 - 31, VENDOR_ID_2 |-> 31 - 31]

\* A faulty table: MASK_VENDOR_ID_2 covers all of packet_info.
vsf_MASK_vendor_id_2_whole_word ==
    [VENDOR_ID_1 |-> Shl(BITMASK(32), vsf_SHIFT.VENDOR_ID_1),
     VENDOR_ID_2 |-> Shl(BITMASK(32), vsf_SHIFT.VENDOR_ID_2)]

vsf_MASK ==
    [VENDOR_ID_1 |-> Shl(BITMASK(32), vsf_SHIFT.VENDOR_ID_1),
     VENDOR_ID_2 |-> Shl(BITMASK(16), vsf_SHIFT.VENDOR_ID_2)]

get_vendor_id(p, out) ==
    LET bitmap1 == LoadBE(p, avtp_stream_pdu.format_specific, 4)
        bitmap2 == LoadBE(p, avtp_stream_pdu.packet_info, 4)
        val1 == BITMAP_GET_VALUE(bitmap1, vsf_MASK.VENDOR_ID_1, vsf_SHIFT.VENDOR_ID_1)
        val2 == BITMAP_GET_VALUE(bitmap2, vsf_MASK.VENDOR_ID_2, vsf_SHIFT.VENDOR_ID_2)
    IN Got(out, Shl(val1, 16) \cup val2)

avtp_vsf_stream_pdu_get(p, field, out) ==
    IF p = NULL \/ out = NULLV THEN GetFailed(out)
    ELSE LET f == Label(avtp_vsf_stream_field, field)
         IN CASE f \in {"SV", "MR", "TV", "SEQ_NUM", "TU", "STREAM_DATA_LEN", "TIMESTAMP", "STREAM_ID"} ->
                    avtp_stream_pdu_get(p, field, out)
              [] f = "VENDOR_ID" -> get_vendor_id(p, out)
              [] OTHER -> GetFailed(out)

set_vendor_id(p, v) ==
    LET ptr1 == avtp_stream_pdu.format_specific
        p1 == put_unaligned_be32(
                BITMAP_SET_VALUE(get_unaligned_be32(p, ptr1), Shr(v, 16),
                                 vsf_MASK.VENDOR_ID_1, vsf_SHIFT.VENDOR_ID_1),
                p, ptr1)
        ptr2 == avtp_stream_pdu.packet_info
        p2 == put_unaligned_be32(
                BITMAP_SET_VALUE(get_unaligned_be32(p1, ptr2), v \cap BITMASK(16),
                                 vsf_MASK.VENDOR_ID_2, vsf_SHIFT.VENDOR_ID_2),
                p1, ptr2)
    IN Done(p2)

avtp_vsf_stream_pdu_set(p, field, v) ==
    IF p = NULL THEN Failed(p)
    ELSE LET f == Label(avtp_vsf_stream_field, field)
         IN CASE f \in {"SV", "MR", "TV", "SEQ_NUM", "TU", "STREAM_DATA_LEN", "TIMESTAMP", "STREAM_ID"} ->
                    avtp_stream_pdu_set(p, field, v)
              [] f = "VENDOR_ID" -> set_vendor_id(p, v)
              [] OTHER -> Failed(p)

avtp_vsf_stream_pdu_init(p) ==
    IF p = NULL THEN Failed(p)
    ELSE Then(Then(
             avtp_pdu_set_subtype(memset0(p, avtp_stream_pdu.avtp_payload), Word(AVTP_SUBTYPE.VSF_STREAM)),
             LAMBDA q : avtp_vsf_stream_pdu_set(q, Enum(avtp_vsf_stream_field, "SV"), Word(1))),
             LAMBDA q : Done(q))

(***************************************************************************)
(* avtp_crf_daemon.h: the records of the daemon's local socket.  A record  *)
(* crosses the socket as the bytes of its packed struct, in the byte order *)
(* of the one host both ends run on (the least significant byte first).    *)
(***************************************************************************)
avtp_crf_daemon_request_type == <<"REGISTER">>
avtp_crf_daemon_event_type == <<"PKT_REVC", "RESENT_TIME">>
avtp_crf_daemon_response_type == <<"ERR", "EVT">>

\* offsetof of each member, and sizeof.
avtp_crf_daemon_req == [type |-> 0, events_per_sec |-> 4, event_type |-> 8, size |-> 12]
avtp_crf_daemon_resp == [type |-> 0, timestamp |-> 4, size |-> 12]

\* The n bytes after the first ofs bytes of bs, read as one host-order word.
HostWord(bs, ofs, n) == UNION {BitsOfByte(bs[ofs + 1 + j], j) : j \in 0..(n - 1)}
\* The n bytes of word w in host order.
HostBytes(w, n) == [j \in 1..n |-> ByteOfWord(w, j - 1)]

\* struct avtp_crf_daemon_req as recv stored it, and as the peer wrote it.
ReqOfBytes(bs) ==
    [type |-> HostWord(bs, avtp_crf_daemon_req.type, 4),
     events_per_sec |-> HostWord(bs, avtp_crf_daemon_req.events_per_sec, 4),
     event_type |-> HostWord(bs, avtp_crf_daemon_req.event_type, 4)]
BytesOfReq(req) ==
    HostBytes(req.type, 4) \o HostBytes(req.events_per_sec, 4)
        \o HostBytes(req.event_type, 4)

(***************************************************************************)
(* examples/crf-daemon.c                                                   *)
(***************************************************************************)
NSEC_PER_SEC == 1000000000
CRF_STREAM_ID == WordOfBytes(<<170, 187, 204, 221, 238, 255, 0, 2>>)
CRF_SAMPLE_RATE == 48000
CRF_TIMESTAMPS_PER_SEC == 300
MCLKLIST_TS_PER_CRF == CRF_SAMPLE_RATE \div CRF_TIMESTAMPS_PER_SEC
MCLK_PERIOD == NSEC_PER_SEC \div CRF_TIMESTAMPS_PER_SEC
TIMESTAMPS_PER_PKT == 6
CRF_DATA_LEN == 8 * TIMESTAMPS_PER_PKT
CRF_PDU_SIZE == avtp_crf_pdu.crf_data + CRF_DATA_LEN
AVTP_CRF_TYPE_AUDIO_SAMPLE == 1
AVTP_CRF_PULL_MULT_BY_1 == 0
EPIPE == 32
EBADF == 9

\* The client slots of the model (the daemon has 128), and the pollfd
\* entries before them.
MAX_CLIENTS == 2
EXTRA_FDS == 2

\* What the members of clients[k] other than fd hold before a REGISTER.
Uninitialized == {-2}

\* avtp_pdu_get on AVTP_FIELD_VERSION: the three bits after sv.
avtp_pdu_get_version(p) ==
    BITMAP_GET_VALUE(LoadBE(p, 0, 4), Shl(BITMASK(3), 31 - 11), 31 - 11)

\* res = avtp_crf_pdu_get(pdu, field, &val64); res >= 0 and val64 == w.
crf_field_is(p, name, w) ==
    With(avtp_crf_pdu_get(p, Enum(avtp_crf_field, name), {}), LAMBDA r :
        r.res >= 0 /\ r.val = w)

\* The part of is_valid_crf_pdu after crf_seq_num++.
crf_stream_is_valid(p) ==
    /\ crf_field_is(p, "TYPE", Word(AVTP_CRF_TYPE_AUDIO_SAMPLE))
    /\ crf_field_is(p, "STREAM_ID", CRF_STREAM_ID)
    /\ crf_field_is(p, "PULL", Word(AVTP_CRF_PULL_MULT_BY_1))
    /\ crf_field_is(p, "BASE_FREQ", Word(CRF_SAMPLE_RATE))
    /\ crf_field_is(p, "CRF_DATA_LEN", Word(CRF_DATA_LEN))

\* An is_valid_crf_pdu that takes the sequence number of a PDU only when the
\* PDU passes every check.
is_valid_crf_pdu_seq_when_valid(p, seq) ==
    IF \/ avtp_pdu_get_subtype(p) # Word(AVTP_SUBTYPE.CRF)
       \/ avtp_pdu_get_version(p) # Word(0)
       \/ ~crf_field_is(p, "SV", Word(1))
       \/ ~crf_field_is(p, "FS", Word(0))
       \/ ~crf_stream_is_valid(p)
    THEN [valid |-> FALSE, seq |-> seq]
    ELSE [valid |-> TRUE, seq |-> (p[2] + 1) % 256]

\* is_valid_crf_pdu(pdu) when crf_seq_num is seq: what it returns, and
\* crf_seq_num after it (a uint8_t).
is_valid_crf_pdu(p, seq) ==
    IF \/ avtp_pdu_get_subtype(p) # Word(AVTP_SUBTYPE.CRF)
       \/ avtp_pdu_get_version(p) # Word(0)
       \/ ~crf_field_is(p, "SV", Word(1))
       \/ ~crf_field_is(p, "FS", Word(0))
    THEN [valid |-> FALSE, seq |-> seq]
    ELSE With(avtp_crf_pdu_get(p, Enum(avtp_crf_field, "SEQ_NUM"), {}), LAMBDA r :
            IF r.res < 0 THEN [valid |-> FALSE, seq |-> seq]
            ELSE [valid |-> crf_stream_is_valid(p),
                  seq |-> ((IF r.val # Word(seq) THEN ByteOfWord(r.val, 0) ELSE seq) + 1)
                            % 256])

\* a + b of two uint64_t.
RECURSIVE AddBytes(_, _, _, _)
AddBytes(a, b, j, carry) ==
    IF j = 8 THEN {}
    ELSE With(ByteOfWord(a, j) + ByteOfWord(b, j) + carry, LAMBDA s :
            BitsOfByte(s % 256, j) \cup AddBytes(a, b, j + 1, s \div 256))
Add64(a, b) == AddBytes(a, b, 0, 0)

\* A ts_mclk that starts from the second timestamp of the PDU, crf_data[1].
ts_mclk_from_second(p, idx) ==
    Add64(LoadBE(p, avtp_crf_pdu.crf_data + 8, 8), Word(idx * MCLK_PERIOD))

\* ts_mclk = ts_crf + (idx * MCLK_PERIOD), ts_crf = be64toh(pdu->crf_data[0]).
ts_mclk(p, idx) ==
    Add64(LoadBE(p, avtp_crf_pdu.crf_data, 8), Word(idx * MCLK_PERIOD))

\* What send does with the records of one recover_mclk: it takes the first
\* ok of them whole, and returns rc (with errno) for the next one.
AllSent == [ok |-> MCLKLIST_TS_PER_CRF, rc |-> avtp_crf_daemon_resp.size, errno |-> 0]
SendOutcomes ==
    {AllSent,
     [ok |-> 0, rc |-> -1, errno |-> EPIPE],
     [ok |-> MCLKLIST_TS_PER_CRF - 1, rc |-> 5, errno |-> 0]}
\* send on a descriptor that is not open.
BadFd == [ok |-> 0, rc |-> -1, errno |-> EBADF]

\* One send call: the record handed to it and what it returned.
SendCall(timestamp, rc) ==
    [type |-> Enum(avtp_crf_daemon_response_type, "EVT"),
     timestamp |-> timestamp, rc |-> rc]

\* mclk_enqueue_ts when send returns rc.
mclk_enqueue_ts(rc, errno) ==
    IF rc < 0 THEN 0 - errno
    ELSE IF rc # avtp_crf_daemon_resp.size THEN 0 - EPIPE
    ELSE 0

\* What the send of the record of tick idx returns.
send_rc(out, idx) == IF idx < out.ok THEN avtp_crf_daemon_resp.size ELSE out.rc

\* The ticks whose mclk_enqueue_ts would fail.
FailedTicks(out) ==
    {idx \in 0..(MCLKLIST_TS_PER_CRF - 1) :
        mclk_enqueue_ts(send_rc(out, idx), out.errno) < 0}

\* A recover_mclk that goes on after a failed mclk_enqueue_ts: all
\* MCLKLIST_TS_PER_CRF send calls are made and 0 is returned.
recover_mclk_ignores_failure(p, out) ==
    [res |-> 0,
     calls |-> [k \in 1..MCLKLIST_TS_PER_CRF |->
                   SendCall(ts_mclk(p, k - 1), send_rc(out, k - 1))]]

\* recover_mclk(pdu, fd): the for loop runs from idx = 0 up to the first
\* tick whose mclk_enqueue_ts fails, or to the end.  Its return value and
\* the send calls it makes, in their order.
recover_mclk(p, out) ==
    With(IF FailedTicks(out) = {} THEN MCLKLIST_TS_PER_CRF - 1
         ELSE CHOOSE idx \in FailedTicks(out) : \A j \in FailedTicks(out) : idx <= j,
         LAMBDA last :
        [res |-> mclk_enqueue_ts(send_rc(out, last), out.errno),
         calls |-> [k \in 1..(last + 1) |->
                       SendCall(ts_mclk(p, k - 1), send_rc(out, k - 1))]])

(***************************************************************************)
(* The daemon's surroundings.  Connections are numbered in the order in    *)
(* which the peers connect; the daemon's descriptors for them are the      *)
(* numbers after those of the capture and the listening socket.            *)
(***************************************************************************)
MaxConns == 3       \* connections peers make in one run
MaxFrames == 2      \* frames that arrive in one run
MaxEvents == 4      \* connects, writes and closes of peers in one run
MaxPending == 12    \* bytes a peer leaves unread on its connection

crf_fd == 3
server_fd == 4
ClientFds == (server_fd + 1)..(server_fd + MaxConns)
Slots == 0..(EXTRA_FDS + MAX_CLIENTS - 1)

\* A CRF PDU as crf-talker sends it, with first timestamp t0, sequence
\* number seq and base frequency freq.
TalkerTimestamps(p, t0) ==
    [k \in DOMAIN p |->
        IF k < avtp_crf_pdu.crf_data THEN p[k]
        ELSE ByteOfWord(Add64(t0, Word(((k - avtp_crf_pdu.crf_data) \div 8) * MCLK_PERIOD)),
                        7 - ((k - avtp_crf_pdu.crf_data) % 8))]
TalkerPdu(t0, seq, freq) ==
    With(Then(Then(Then(Then(Then(Then(Then(Then(
             avtp_crf_pdu_init([k \in 0..(CRF_PDU_SIZE - 1) |-> 0]),
             LAMBDA q : avtp_crf_pdu_set(q, Enum(avtp_crf_field, "FS"), Word(0))),
             LAMBDA q : avtp_crf_pdu_set(q, Enum(avtp_crf_field, "TYPE"),
                                         Word(AVTP_CRF_TYPE_AUDIO_SAMPLE))),
             LAMBDA q : avtp_crf_pdu_set(q, Enum(avtp_crf_field, "STREAM_ID"), CRF_STREAM_ID)),
             LAMBDA q : avtp_crf_pdu_set(q, Enum(avtp_crf_field, "PULL"),
                                         Word(AVTP_CRF_PULL_MULT_BY_1))),
             LAMBDA q : avtp_crf_pdu_set(q, Enum(avtp_crf_field, "BASE_FREQ"), Word(freq))),
             LAMBDA q : avtp_crf_pdu_set(q, Enum(avtp_crf_field, "TIMESTAMP_INTERVAL"),
                                         Word(MCLKLIST_TS_PER_CRF))),
             LAMBDA q : avtp_crf_pdu_set(q, Enum(avtp_crf_field, "CRF_DATA_LEN"),
                                         Word(CRF_DATA_LEN))),
             LAMBDA q : avtp_crf_pdu_set(q, Enum(avtp_crf_field, "SEQ_NUM"), Word(seq))),
         LAMBDA r : TalkerTimestamps(r.pdu, t0))

\* Frames the capture socket receives: CRF PDUs of the stream (one with a
\* first timestamp in the middle of the range, one with a first timestamp
\* so late that every later tick wraps around), one of a stream with
\* another base frequency, and a frame one byte short.
Frames ==
    {TalkerPdu(WordOfBytes(<<0, 0, 171, 205, 239, 35, 69, 103>>), 0, CRF_SAMPLE_RATE),
     TalkerPdu(U64, 255, CRF_SAMPLE_RATE),
     TalkerPdu(U64, 255, 44100),
     With(TalkerPdu(U64, 1, CRF_SAMPLE_RATE), LAMBDA f :
         [k \in 0..(CRF_PDU_SIZE - 2) |-> f[k]])}

\* What peers write: a REGISTER request, a request with a tag the daemon
\* does not know, and the first eight bytes of a request.
Register(events_per_sec, event_type) ==
    BytesOfReq([type |-> Word(Enum(avtp_crf_daemon_request_type, "REGISTER")),
                events_per_sec |-> Word(events_per_sec),
                event_type |-> Word(Enum(avtp_crf_daemon_event_type, event_type))])
Writes ==
    {Register(CRF_TIMESTAMPS_PER_SEC, "RESENT_TIME"),
     BytesOfReq([type |-> Word(1), events_per_sec |-> Word(1), event_type |-> Word(0)]),
     SubSeq(Register(CRF_TIMESTAMPS_PER_SEC, "RESENT_TIME"), 1, 8)}

\* A connection nobody has made yet or the daemon has closed.
NoConn == [inbox |-> <<>>, closed |-> FALSE]
Gone == [inbox |-> <<>>, closed |-> TRUE]

\* The connection behind descriptor fd, 0 when fd is not an open descriptor.
ConnOf(d, fd) == IF fd \in DOMAIN d THEN d[fd] ELSE 0
\* Connection c is behind a descriptor that the daemon polls.
Polled(c) == \E k \in DOMAIN fds : ConnOf(desc, fds[k]) = c

\* No PDU received and no send call.
NoSends == [n |-> 0, pdu |-> <<>>, to |-> [c \in 1..MaxConns |-> <<>>]]

(***************************************************************************)
(* The daemon's state as one record, and its functions as functions from   *)
(* the state before to the state after.                                    *)
(***************************************************************************)
Now ==
    [fds |-> fds, nfds |-> nfds, clients |-> clients, crf_seq_num |-> crf_seq_num,
     desc |-> desc, conns |-> conns, backlog |-> backlog, sent |-> NoSends,
     registered |-> registered]

Becomes(st) ==
    /\ fds' = st.fds
    /\ nfds' = st.nfds
    /\ clients' = st.clients
    /\ crf_seq_num' = st.crf_seq_num
    /\ desc' = st.desc
    /\ conns' = st.conns
    /\ backlog' = st.backlog
    /\ sent' = st.sent
    /\ registered' = st.registered

\* close(fd): nothing when fd is not an open descriptor (EBADF).
close(st, fd) ==
    IF ConnOf(st.desc, fd) = 0 THEN st
    ELSE [st EXCEPT !.desc[fd] = 0, !.conns[st.desc[fd]] = Gone,
                    !.registered = @ \ {st.desc[fd]}]

\* A faulty client_close: it frees the pollfd entry and leaves client->fd.
client_close_keeps_client_fd(st, k, c) ==
    [close(st, st.clients[c].fd) EXCEPT !.fds[k] = -1]

\* client_close(&fds[k], &clients[c])
client_close(st, k, c) ==
    [close(st, st.clients[c].fd) EXCEPT !.clients[c].fd = -1, !.fds[k] = -1]

\* The send calls made on descriptor fd.
Sends(st, fd, calls) ==
    IF ConnOf(st.desc, fd) = 0 THEN st
    ELSE [st EXCEPT !.sent.to[st.desc[fd]] = @ \o calls]

\* A loop of handle_crf_pdu that is left at the first client whose
\* recover_mclk fails, after closing it.
RECURSIVE handle_crf_clients_until_failure(_, _, _, _, _)
handle_crf_clients_until_failure(st, p, outs, c, clients_max) ==
    IF c >= clients_max THEN st
    ELSE IF st.clients[c].fd < 0
    THEN handle_crf_clients_until_failure(st, p, outs, c + 1, clients_max)
    ELSE With(recover_mclk(p, IF ConnOf(st.desc, st.clients[c].fd) = 0 THEN BadFd
                              ELSE outs[c]), LAMBDA r :
            IF r.res < 0
            THEN client_close(Sends(st, st.clients[c].fd, r.calls), c + EXTRA_FDS, c)
            ELSE handle_crf_clients_until_failure(
                     Sends(st, st.clients[c].fd, r.calls), p, outs, c + 1, clients_max))

\* The loop of handle_crf_pdu from client c on; outs[c] is what send does
\* on the connection of client c.
RECURSIVE handle_crf_clients(_, _, _, _, _)
handle_crf_clients(st, p, outs, c, clients_max) ==
    IF c >= clients_max THEN st
    ELSE IF st.clients[c].fd < 0 THEN handle_crf_clients(st, p, outs, c + 1, clients_max)
    ELSE With(recover_mclk(p, IF ConnOf(st.desc, st.clients[c].fd) = 0 THEN BadFd
                              ELSE outs[c]), LAMBDA r :
            handle_crf_clients(
                IF r.res < 0
                THEN client_close(Sends(st, st.clients[c].fd, r.calls), c + EXTRA_FDS, c)
                ELSE Sends(st, st.clients[c].fd, r.calls),
                p, outs, c + 1, clients_max))

\* handle_crf_pdu(pdu, &fds[EXTRA_FDS], clients, clients_max)
handle_crf_pdu(st, p, outs, clients_max) ==
    With(is_valid_crf_pdu(p, st.crf_seq_num), LAMBDA v :
        IF ~v.valid THEN [st EXCEPT !.crf_seq_num = v.seq]
        ELSE handle_crf_clients([st EXCEPT !.crf_seq_num = v.seq], p, outs, 0, clients_max))

\* memset(pdu, 0, CRF_PDU_SIZE); n = recv(crf_fd, pdu, CRF_PDU_SIZE, 0)
\* when frame f is the next one at the socket.
recv_crf(f) ==
    With(IF Cardinality(DOMAIN f) < CRF_PDU_SIZE THEN Cardinality(DOMAIN f)
         ELSE CRF_PDU_SIZE, LAMBDA n :
        [n |-> n, pdu |-> [k \in 0..(CRF_PDU_SIZE - 1) |-> IF k < n THEN f[k] ELSE 0]])

\* process_crf(crf_fd, &fds[EXTRA_FDS], clients, clients_max)
process_crf(st, f, outs, clients_max) ==
    With(recv_crf(f), LAMBDA r :
        IF r.n # CRF_PDU_SIZE THEN [st EXCEPT !.sent.n = r.n, !.sent.pdu = r.pdu]
        ELSE handle_crf_pdu([st EXCEPT !.sent.n = r.n, !.sent.pdu = r.pdu],
                            r.pdu, outs, clients_max))

\* The body of the while loop of process_request on client c, for one
\* request that recv returned whole.
handle_request(st, fd, c, req) ==
    IF req.type = Word(Enum(avtp_crf_daemon_request_type, "REGISTER"))
    THEN [st EXCEPT !.clients[c] = [fd |-> fd, events_per_crf |-> req.events_per_sec,
                                    event_type |-> req.event_type],
                    !.registered = @ \cup {st.desc[fd]}]
    ELSE st

\* A faulty result of process_request: a recv that returns part of a
\* record is taken for one that would block.
request_result_short_ok(rest, closed) ==
    IF closed /\ rest = <<>> THEN 0 - EPIPE ELSE 0

\* What process_request returns after its loop, when the last recv found
\* the bytes rest: would block (0), -EPIPE, or -EINVAL.
request_result(rest, closed) ==
    IF rest = <<>> THEN (IF closed THEN 0 - EPIPE ELSE 0)
    ELSE 0 - EINVAL

\* A faulty process_request: it leaves client->fd as it is when it fails.
RECURSIVE process_request_keeps_fd(_, _, _, _)
process_request_keeps_fd(st, k, fd, c) ==
    IF ConnOf(st.desc, fd) = 0
    THEN [st EXCEPT !.fds[k] = -1]
    ELSE IF Len(st.conns[st.desc[fd]].inbox) >= avtp_crf_daemon_req.size
    THEN process_request_keeps_fd(
            handle_request(
                [st EXCEPT !.conns[st.desc[fd]].inbox =
                               SubSeq(@, avtp_crf_daemon_req.size + 1, Len(@))],
                fd, c,
                ReqOfBytes(SubSeq(st.conns[st.desc[fd]].inbox, 1, avtp_crf_daemon_req.size))),
            k, fd, c)
    ELSE IF request_result(st.conns[st.desc[fd]].inbox, st.conns[st.desc[fd]].closed) < 0
    THEN [close(st, fd) EXCEPT !.fds[k] = -1]
    ELSE st

\* process_request(fd, &clients[c]) followed by what main does with its
\* return value at fds[k].
RECURSIVE process_request(_, _, _, _)
process_request(st, k, fd, c) ==
    IF ConnOf(st.desc, fd) = 0
    THEN [st EXCEPT !.clients[c].fd = -1, !.fds[k] = -1]
    ELSE IF Len(st.conns[st.desc[fd]].inbox) >= avtp_crf_daemon_req.size
    THEN process_request(
            handle_request(
                [st EXCEPT !.conns[st.desc[fd]].inbox =
                               SubSeq(@, avtp_crf_daemon_req.size + 1, Len(@))],
                fd, c,
                ReqOfBytes(SubSeq(st.conns[st.desc[fd]].inbox, 1, avtp_crf_daemon_req.size))),
            k, fd, c)
    ELSE IF request_result(st.conns[st.desc[fd]].inbox, st.conns[st.desc[fd]].closed) < 0
    THEN [close([st EXCEPT !.clients[c].fd = -1], fd) EXCEPT !.fds[k] = -1]
    ELSE st

\* The body of the accept loop for the connection accept returned as new_sd.
place(st, new_sd) ==
    IF \A k \in Slots : st.fds[k] >= 0 THEN st
    ELSE With(CHOOSE k \in Slots : st.fds[k] < 0 /\ \A j \in 0..(k - 1) : st.fds[j] >= 0,
              LAMBDA k :
            [st EXCEPT !.fds[k] = new_sd,
                       !.nfds = IF k >= @ THEN k + 1 ELSE @])

\* The accept loop: accept returns the oldest connection of the listen
\* queue at the lowest descriptor that is not open, until the queue is empty.
RECURSIVE accept_all(_)
accept_all(st) ==
    IF st.backlog = <<>> THEN st
    ELSE With(CHOOSE fd \in ClientFds :
                  st.desc[fd] = 0 /\ \A g \in ClientFds : g < fd => st.desc[g] # 0,
              LAMBDA new_sd :
            accept_all(place([st EXCEPT !.desc[new_sd] = Head(st.backlog),
                                        !.backlog = Tail(@)], new_sd)))

(***************************************************************************)
(* main of the daemon: the state after its set-up, poll, and one action    *)
(* for each branch of the for loop over fds.  Iterations that find         *)
(* revents == 0 only move on, so the loop goes from one entry with events  *)
(* to the next one.                                                        *)
(***************************************************************************)
POLLIN == {"POLLIN"}

Started ==
    /\ fds = [k \in Slots |-> IF k = 0 THEN server_fd ELSE IF k = 1 THEN crf_fd ELSE -1]
    /\ revents = [k \in Slots |-> {}]
    /\ nfds = EXTRA_FDS
    /\ clients = [c \in 0..(MAX_CLIENTS - 1) |->
                    [fd |-> -1, events_per_crf |-> Uninitialized,
                     event_type |-> Uninitialized]]
    /\ crf_seq_num = 0
    /\ at = "poll"
    /\ loop_i = 0
    /\ current_size = 0
    /\ desc = [fd \in ClientFds |-> 0]
    /\ conns = [c \in 1..MaxConns |-> NoConn]
    /\ backlog = <<>>
    /\ nconns = 0
    /\ frame = <<>>
    /\ nframes = 0
    /\ nevents = 0
    /\ broken = {}
    /\ sent = NoSends
    /\ registered = {}

\* What peers and the network do is placed where main is blocked in poll.
\* The daemon has one thread and looks at a descriptor once in a round of
\* its loop: what happens on a descriptor during a round is found either
\* by that look, as if it had happened before poll returned, or by the
\* next poll, as if it had happened after the round.  In the same way a
\* peer's writes before accept are placed after it: the daemon looks at a
\* new connection for the first time in the round after accept.  What a
\* peer does on a connection that is in no entry of fds never reaches the
\* daemon.

\* A peer connects to the daemon's socket.
Connect ==
    /\ at = "poll"
    /\ nconns < MaxConns
    /\ nevents < MaxEvents
    /\ nconns' = nconns + 1
    /\ nevents' = nevents + 1
    /\ backlog' = Append(backlog, nconns + 1)
    /\ sent' = NoSends
    /\ UNCHANGED <<caller, daemon, desc, conns, frame, nframes, broken, registered>>

\* The peer of connection c writes the bytes bs.
Write(c, bs) ==
    /\ at = "poll"
    /\ Polled(c)
    /\ ~conns[c].closed
    /\ nevents < MaxEvents
    /\ Len(conns[c].inbox) + Len(bs) <= MaxPending
    /\ conns' = [conns EXCEPT ![c].inbox = @ \o bs]
    /\ nevents' = nevents + 1
    /\ sent' = NoSends
    /\ UNCHANGED <<caller, daemon, desc, backlog, nconns, frame, nframes, broken, registered>>

\* The peer of connection c closes it.
PeerClose(c) ==
    /\ at = "poll"
    /\ Polled(c)
    /\ ~conns[c].closed
    /\ nevents < MaxEvents
    /\ conns' = [conns EXCEPT ![c].closed = TRUE]
    /\ nevents' = nevents + 1
    /\ sent' = NoSends
    /\ UNCHANGED <<caller, daemon, desc, backlog, nconns, frame, nframes, broken, registered>>

\* Frame f arrives at the capture socket.
Capture(f) ==
    /\ at = "poll"
    /\ frame = <<>>
    /\ nframes < MaxFrames
    /\ frame' = f
    /\ nframes' = nframes + 1
    /\ sent' = NoSends
    /\ UNCHANGED <<caller, daemon, desc, conns, backlog, nconns, nevents, broken, registered>>

\* An error comes up on the listening or on the capture socket, the first
\* one of the run; poll reports it from then on.
SocketError(fd) ==
    /\ at = "poll"
    /\ broken = {}
    /\ broken' = {fd}
    /\ sent' = NoSends
    /\ UNCHANGED <<caller, daemon, desc, conns, backlog, nconns, frame, nframes, nevents,
                   registered>>

\* What poll stores in fds[k].revents; hup says whether it reports the
\* hang-up of a peer that has closed, besides the end of file to read.
Events(k, hup) ==
    IF fds[k] < 0 THEN {}
    ELSE IF fds[k] = server_fd
    THEN (IF backlog # <<>> THEN POLLIN ELSE {})
            \cup (IF server_fd \in broken THEN {"POLLERR"} ELSE {})
    ELSE IF fds[k] = crf_fd
    THEN (IF frame # <<>> THEN POLLIN ELSE {})
            \cup (IF crf_fd \in broken THEN {"POLLERR"} ELSE {})
    ELSE IF ConnOf(desc, fds[k]) = 0 THEN {"POLLNVAL"}
    ELSE IF conns[desc[fds[k]]].closed
    THEN (IF hup THEN {"POLLIN", "POLLHUP"} ELSE POLLIN)
    ELSE IF conns[desc[fds[k]]].inbox # <<>> THEN POLLIN
    ELSE {}

\* The entries poll is given whose peer has closed.
ClosedEntries ==
    {k \in 0..(nfds - 1) : ConnOf(desc, fds[k]) # 0 /\ conns[ConnOf(desc, fds[k])].closed}

\* The first entry at or after k, below size, that has events; size when
\* there is none.
RECURSIVE NextEvent(_, _, _)
NextEvent(rev, k, size) ==
    IF k >= size THEN size
    ELSE IF rev[k] # {} THEN k
    ELSE NextEvent(rev, k + 1, size)

\* main calls poll.  poll overwrites the revents of the nfds entries it is
\* given and the entries from nfds on have never been written, so what the
\* round before left in revents is read no more; i and current_size are
\* out of scope.
CallPoll ==
    /\ at' = "poll"
    /\ revents' = [k \in Slots |-> {}]
    /\ loop_i' = 0
    /\ current_size' = 0

\* The for loop goes on after entry loop_i, or ends and main calls poll.
Continue ==
    /\ IF NextEvent(revents, loop_i + 1, current_size) < current_size
       THEN /\ loop_i' = NextEvent(revents, loop_i + 1, current_size)
            /\ UNCHANGED <<at, revents, current_size>>
       ELSE CallPoll
    /\ UNCHANGED <<caller, nconns, nframes, nevents, broken>>

\* poll(fds, nfds, -1) returns a positive number.
Poll ==
    /\ at = "poll"
    /\ \E hups \in SUBSET ClosedEntries :
        \E rev \in {[k \in Slots |-> IF k < nfds THEN Events(k, k \in hups) ELSE {}]} :
          /\ NextEvent(rev, 0, nfds) < nfds
          /\ revents' = rev
          /\ loop_i' = NextEvent(rev, 0, nfds)
    /\ at' = "loop"
    /\ current_size' = nfds
    /\ sent' = NoSends
    /\ UNCHANGED <<caller, fds, nfds, clients, crf_seq_num, desc, conns, backlog,
                   nconns, frame, nframes, nevents, broken, registered>>

\* poll fails: main leaves the while loop and closes what fds holds.
RECURSIVE close_all(_, _)
close_all(st, k) ==
    IF k >= st.nfds THEN st
    ELSE close_all(IF st.fds[k] >= 0 THEN close(st, st.fds[k]) ELSE st, k + 1)

PollFails ==
    /\ at = "poll"
    /\ at' = "exit"
    /\ Becomes(close_all(Now, 0))
    /\ UNCHANGED <<caller, revents, loop_i, current_size, nconns, frame, nframes, nevents,
                   broken>>

\* revents != POLLIN at the listening or the capture socket: break.
Fatal ==
    /\ at = "loop"
    /\ revents[loop_i] # POLLIN
    /\ loop_i < EXTRA_FDS
    /\ CallPoll
    /\ sent' = NoSends
    /\ UNCHANGED <<caller, fds, nfds, clients, crf_seq_num, desc, conns, backlog,
                   nconns, frame, nframes, nevents, broken, registered>>

\* revents != POLLIN at a client entry: client_close.
HangUp ==
    /\ at = "loop"
    /\ revents[loop_i] # POLLIN
    /\ loop_i >= EXTRA_FDS
    /\ Becomes(client_close(Now, loop_i, loop_i - EXTRA_FDS))
    /\ UNCHANGED frame
    /\ Continue

\* fds[i].fd == server_fd: the accept loop.
Accept ==
    /\ at = "loop"
    /\ revents[loop_i] = POLLIN
    /\ fds[loop_i] = server_fd
    /\ Becomes(accept_all(Now))
    /\ UNCHANGED frame
    /\ Continue

\* fds[i].fd == crf_fd: process_crf.
ProcessCrf ==
    /\ at = "loop"
    /\ revents[loop_i] = POLLIN
    /\ fds[loop_i] # server_fd
    /\ fds[loop_i] = crf_fd
    /\ frame # <<>>
    /\ \E outs \in [{c \in 0..(nfds - EXTRA_FDS - 1) : clients[c].fd >= 0} -> SendOutcomes] :
          Becomes(process_crf(Now, frame, outs, nfds - EXTRA_FDS))
    /\ frame' = <<>>
    /\ Continue

\* Any other entry: process_request, and close when it fails.
Request ==
    /\ at = "loop"
    /\ revents[loop_i] = POLLIN
    /\ fds[loop_i] # server_fd
    /\ fds[loop_i] # crf_fd
    /\ Becomes(process_request(Now, loop_i, fds[loop_i], loop_i - EXTRA_FDS))
    /\ UNCHANGED frame
    /\ Continue

(***************************************************************************)
(* The callers of the library.  A behaviour is one caller: it owns one     *)
(* buffer with some content, uses one accessor family on it and makes up   *)
(* to MaxCalls calls of X_pdu_init, X_pdu_get and X_pdu_set.               *)
(***************************************************************************)
Accessors == {"stream", "aaf", "crf", "cvf", "ieciidc", "rvf", "vsf_stream"}

FieldEnum(a) ==
    CASE a = "stream" -> avtp_stream_field
      [] a = "aaf" -> avtp_aaf_field
      [] a = "crf" -> avtp_crf_field
      [] a = "cvf" -> avtp_cvf_field
      [] a = "ieciidc" -> avtp_ieciidc_field
      [] a = "rvf" -> avtp_rvf_field
      [] a = "vsf_stream" -> avtp_vsf_stream_field

PduGet(a, p, field, out) ==
    CASE a = "stream" -> avtp_stream_pdu_get(p, field, out)
      [] a = "aaf" -> avtp_aaf_pdu_get(p, field, out)
      [] a = "crf" -> avtp_crf_pdu_get(p, field, out)
      [] a = "cvf" -> avtp_cvf_pdu_get(p, field, out)
      [] a = "ieciidc" -> avtp_ieciidc_pdu_get(p, field, out)
      [] a = "rvf" -> avtp_rvf_pdu_get(p, field, out)
      [] a = "vsf_stream" -> avtp_vsf_stream_pdu_get(p, field, out)

PduSet(a, p, field, v) ==
    CASE a = "stream" -> avtp_stream_pdu_set(p, field, v)
      [] a = "aaf" -> avtp_aaf_pdu_set(p, field, v)
      [] a = "crf" -> avtp_crf_pdu_set(p, field, v)
      [] a = "cvf" -> avtp_cvf_pdu_set(p, field, v)
      [] a = "ieciidc" -> avtp_ieciidc_pdu_set(p, field, v)
      [] a = "rvf" -> avtp_rvf_pdu_set(p, field, v)
      [] a = "vsf_stream" -> avtp_vsf_stream_pdu_set(p, field, v)

(***************************************************************************)
(* Where X_pdu_set stores a field: the regions of the field.  A region is  *)
(* the n-byte big-endian word at offset ofs, the mask and shift of the     *)
(* field in it, and the bit of the value (from) that the region starts at. *)
(***************************************************************************)
Region(c, n) ==
    IF c.ok
    THEN {[ofs |-> c.ofs, n |-> n, mask |-> c.mask \cap BITMASK(8 * n),
           shift |-> c.shift, from |-> 0]}
    ELSE {}

\* A member that is read and written whole (ntohl/htonl, be64toh/htobe64).
Whole(ofs, n) == Region(Case(BITMASK(8 * n), 0, ofs), n)

StreamRegions(f) ==
    CASE f = "TIMESTAMP" -> Whole(avtp_stream_pdu.avtp_time, 4)
      [] f = "STREAM_ID" -> Whole(avtp_stream_pdu.stream_id, 8)
      [] OTHER -> Region(stream_set_case(f), 4)

FieldRegions(a, field) ==
    LET f == Label(FieldEnum(a), field)
    IN CASE a = "stream" -> StreamRegions(f)
         [] a = "aaf" -> StreamRegions(f) \cup Region(aaf_set_case(f), 4)
         [] a = "crf" ->
                IF f = "STREAM_ID" THEN Whole(avtp_crf_pdu.stream_id, 8)
                ELSE Region(crf_set_case_32(f), 4) \cup Region(crf_set_case_64(f), 8)
         [] a = "cvf" ->
                IF f = "H264_TIMESTAMP"
                THEN Whole(avtp_stream_pdu.avtp_payload
                           + avtp_cvf_h264_payload.h264_header, 4)
                ELSE StreamRegions(f) \cup Region(cvf_set_case(f), 4)
         [] a = "ieciidc" ->
                IF f = "GATEWAY_INFO" THEN Whole(avtp_stream_pdu.format_specific, 4)
                ELSE StreamRegions(f) \cup Region(ieciidc_set_case(f), 4)
         [] a = "rvf" ->
                StreamRegions(f) \cup Region(rvf_set_case(f), 4)
                    \cup Region(rvf_set_raw_case(f), 8)
         [] a = "vsf_stream" ->
                IF f = "VENDOR_ID"
                THEN {[ofs |-> avtp_stream_pdu.format_specific, n |-> 4,
                       mask |-> vsf_MASK.VENDOR_ID_1 \cap U32,
                       shift |-> vsf_SHIFT.VENDOR_ID_1, from |-> 16],
                      [ofs |-> avtp_stream_pdu.packet_info, n |-> 4,
                       mask |-> vsf_MASK.VENDOR_ID_2,
                       shift |-> vsf_SHIFT.VENDOR_ID_2, from |-> 0]}
                ELSE StreamRegions(f)

\* The number of bits of a field, and the values that fit in it.
Width(a, field) ==
    With(FieldRegions(a, field), LAMBDA rs :
        IF rs = {} THEN 0
        ELSE With(CHOOSE r \in rs : \A q \in rs : q.from <= r.from, LAMBDA top :
                top.from + Cardinality(top.mask)))
Fits(a, field, v) == v \subseteq BITMASK(Width(a, field))

\* The bytes of the PDU that hold the words of a field.
FieldBytes(a, field) ==
    UNION {r.ofs..(r.ofs + r.n - 1) : r \in FieldRegions(a, field)}

\* The fields of an accessor: every enumerator below X_FIELD_MAX.
Fields(a) == 0..(Len(FieldEnum(a)) - 2)

\* avtp_stream.h declares no initializer.
Initializers == Accessors \ {"stream"}

PduInit(a, p, arg) ==
    CASE a = "aaf" -> avtp_aaf_pdu_init(p)
      [] a = "crf" -> avtp_crf_pdu_init(p)
      [] a = "cvf" -> avtp_cvf_pdu_init(p, arg)
      [] a = "ieciidc" -> avtp_ieciidc_pdu_init(p, arg)
      [] a = "rvf" -> avtp_rvf_pdu_init(p)
      [] a = "vsf_stream" -> avtp_vsf_stream_pdu_init(p)

\* sizeof the fixed header of the accessor's PDU struct.
HeaderLen(a) ==
    IF a = "crf" THEN avtp_crf_pdu.crf_data ELSE avtp_stream_pdu.avtp_payload
BufLen(a) == HeaderLen(a) + PayloadLen

\* Contents a caller's buffer may have before the first call.
Fills == {"zero", "ones", "ramp"}
Buffer(a, fill) ==
    [i \in 0..(BufLen(a) - 1) |->
        CASE fill = "zero" -> 0
          [] fill = "ones" -> 255
          [] fill = "ramp" -> (37 * i + 11) % 256]


\* Values a caller passes for a field: 0, all 64 bits set, and the largest
\* value and the low bits of 0xABCDEF234567 that are in the field's range.
Ones == U64
Pattern == WordOfBytes(<<171, 205, 239, 35, 69, 103>>)
Values(a, field) ==
    With(BITMASK(Width(a, field)), LAMBDA range :
        {{}, Ones, Ones \cap range, Pattern \cap range})

\* What a caller's result variable holds before a get.
Stale == WordOfBytes(<<222, 173, 190, 239>>)


\* Field identifiers a caller passes: every enumerator, X_FIELD_MAX
\* included, and one value past the enumeration.
FieldIds(a) == 0..Len(FieldEnum(a))

\* Arguments a caller passes to an initializer that takes one.
InitArgs(a) == IF a \in {"cvf", "ieciidc"} THEN {0, 1, 2, 3, 255} ELSE {0}

NoCall == [op |-> "none", field |-> 0, value |-> {}, arg |-> 0,
           null_pdu |-> FALSE, null_val |-> FALSE, res |-> 0]

Init ==
    /\ acc \in Accessors
    /\ \E fill \in Fills : pdu = Buffer(acc, fill)
    /\ pre = pdu
    /\ call = NoCall
    /\ val = Stale
    /\ ncalls = 0
    /\ Started

\* X_pdu_get(pdu, field, &val)
Get(field, nullp, nullv) ==
    /\ ncalls < MaxCalls
    /\ With(PduGet(acc, IF nullp THEN NULL ELSE pdu, field,
                   IF nullv THEN NULLV ELSE Stale), LAMBDA r :
          /\ call' = [op |-> "get", field |-> field, value |-> {}, arg |-> 0,
                      null_pdu |-> nullp, null_val |-> nullv, res |-> r.res]
          /\ val' = IF nullv THEN Stale ELSE r.val)
    /\ pre' = pdu
    /\ ncalls' = ncalls + 1
    /\ UNCHANGED <<acc, pdu, daemon, world>>

\* X_pdu_set(pdu, field, v)
Set(field, v, nullp) ==
    /\ ncalls < MaxCalls
    /\ With(PduSet(acc, IF nullp THEN NULL ELSE pdu, field, v), LAMBDA r :
          /\ call' = [op |-> "set", field |-> field, value |-> v, arg |-> 0,
                      null_pdu |-> nullp, null_val |-> FALSE, res |-> r.res]
          /\ pdu' = IF nullp THEN pdu ELSE r.pdu)
    /\ pre' = pdu
    /\ val' = Stale
    /\ ncalls' = ncalls + 1
    /\ UNCHANGED <<acc, daemon, world>>

\* X_pdu_init(pdu [, arg])
Initialize(arg, nullp) ==
    /\ ncalls < MaxCalls
    /\ acc \in Initializers
    /\ With(PduInit(acc, IF nullp THEN NULL ELSE pdu, arg), LAMBDA r :
          /\ call' = [op |-> "init", field |-> 0, value |-> {}, arg |-> arg,
                      null_pdu |-> nullp, null_val |-> FALSE, res |-> r.res]
          /\ pdu' = IF nullp THEN pdu ELSE r.pdu)
    /\ pre' = pdu
    /\ val' = Stale
    /\ ncalls' = ncalls + 1
    /\ UNCHANGED <<acc, daemon, world>>

\* The field identifiers of the calls that pass a null pointer: the first
\* and the last enumerator and one value past the enumeration.
NullFieldIds(a) == {0, Len(FieldEnum(a)) - 1, Len(FieldEnum(a))}

Next ==
    \/ \E field \in FieldIds(acc) : Get(field, FALSE, FALSE)
    \/ \E field \in NullFieldIds(acc) :
        \E nulls \in {<<TRUE, FALSE>>, <<FALSE, TRUE>>, <<TRUE, TRUE>>} :
            Get(field, nulls[1], nulls[2])
    \/ \E field \in FieldIds(acc) : \E v \in Values(acc, field) : Set(field, v, FALSE)
    \/ \E field \in NullFieldIds(acc) : Set(field, Ones, TRUE)
    \/ \E arg \in InitArgs(acc), nullp \in BOOLEAN : Initialize(arg, nullp)

Spec == Init /\ [][Next]_vars

(***************************************************************************)
(* The daemon and its surroundings.  No caller of the accessors runs: the  *)
(* daemon's own calls are part of its actions.                             *)
(***************************************************************************)
DaemonInit ==
    /\ acc = "crf"
    /\ pdu = Buffer("crf", "zero")
    /\ pre = pdu
    /\ call = NoCall
    /\ val = Stale
    /\ ncalls = 0
    /\ Started

DaemonNext ==
    \/ Connect
    \/ \E c \in 1..nconns : \E bs \in Writes : Write(c, bs)
    \/ \E c \in 1..nconns : PeerClose(c)
    \/ \E f \in Frames : Capture(f)
    \/ \E fd \in {server_fd, crf_fd} : SocketError(fd)
    \/ Poll
    \/ PollFails
    \/ Fatal
    \/ HangUp
    \/ Accept
    \/ ProcessCrf
    \/ Request

DaemonSpec == DaemonInit /\ [][DaemonNext]_vars

(***************************************************************************)
(* Properties.  They speak of the state after the latest call: the buffer  *)
(* before it (pre) and after it (pdu), its arguments and its return value. *)
(***************************************************************************)
SetOk == call.op = "set" /\ call.res = 0
InitOk == call.op = "init" /\ call.res = 0
CallLabel == Label(FieldEnum(acc), call.field)

\* X_pdu_get(p, field, &v) with a fresh result variable v.
GetOf(p, field) == PduGet(acc, p, field, Stale)

\* No bit outside the regions of the field differs between buffers p and q.
SameOutside(a, field, p, q) ==
    /\ \A i \in (DOMAIN p) \ FieldBytes(a, field) : p[i] = q[i]
    /\ \A r \in FieldRegions(a, field) :
            LoadBE(p, r.ofs, r.n) \ r.mask = LoadBE(q, r.ofs, r.n) \ r.mask

\* C1 (round trip): after a successful X_pdu_set(pdu, f, v) with a value v
\* that fits in the width of f, X_pdu_get(pdu, f) succeeds and returns
\* exactly v, for every accessor, field and prior content of the buffer.
C1_RoundTrip ==
    (SetOk /\ Fits(acc, call.field, call.value))
        => GetOf(pdu, call.field) = [res |-> 0, val |-> call.value]

C1_Witness ==
    /\ SetOk
    /\ acc = "rvf" /\ CallLabel = "RAW_LINE_NUMBER"
    /\ call.value = WordOfBytes(<<69, 103>>)
    /\ pre = Buffer(acc, "ramp")
    /\ GetOf(pdu, call.field).val = call.value

\* C2 (frame of set): a successful set of field f changes no bit of the
\* buffer outside the mask of f in the word that holds f, and no other byte
\* of header or payload; every field other than VSF VENDOR_ID lives in one
\* word, and VENDOR_ID is all of format_specific and the low 16 bits of
\* packet_info.
C2_Frame ==
    SetOk =>
        /\ SameOutside(acc, call.field, pdu, pre)
        /\ IF acc = "vsf_stream" /\ CallLabel = "VENDOR_ID"
           THEN /\ \A i \in DOMAIN pdu : pdu[i] # pre[i] => i \in {16, 17, 18, 19, 22, 23}
                /\ FieldBytes(acc, call.field) = 16..23
           ELSE /\ Cardinality(FieldRegions(acc, call.field)) = 1
                /\ \A r \in FieldRegions(acc, call.field) : r.n \in {4, 8}

C2_Witness ==
    /\ SetOk
    /\ acc = "ieciidc" /\ CallLabel = "CIP_DBS"
    /\ pre = Buffer(acc, "ramp")
    /\ pdu # pre
    /\ \E i \in FieldBytes(acc, call.field) : pdu[i] = pre[i] /\ pre[i] # 0

\* The pairs of IEC 61883/IIDC CIP fields whose bits in cip_2 overlap:
\* TSF and ND are the same bit, and NO_DATA covers TSF, ND, EVT, SFC and N.
CipOverlap ==
    LET pairs == {<<"CIP_TSF", "CIP_ND">>} \cup
                 {<<"CIP_NO_DATA", g>> :
                    g \in {"CIP_TSF", "CIP_ND", "CIP_EVT", "CIP_SFC", "CIP_N"}}
    IN pairs \cup {<<pr[2], pr[1]>> : pr \in pairs}

\* C3 as stated (neighbor preservation for all pairs): a successful set of
\* f leaves the value that get returns for every other field g unchanged.
C3_AllPairs ==
    SetOk => \A g \in Fields(acc) \ {call.field} : GetOf(pdu, g) = GetOf(pre, g)

\* C3 (neighbor preservation, amended): a successful set of f leaves the
\* value that get returns for every other field g unchanged, for all pairs
\* of distinct fields except the IEC 61883/IIDC CIP pairs that share bits of
\* cip_2: (TSF, ND) and NO_DATA with each of TSF, ND, EVT, SFC and N.
C3_Neighbors ==
    SetOk =>
        \A g \in Fields(acc) \ {call.field} :
            (acc = "ieciidc" /\ <<CallLabel, Label(FieldEnum(acc), g)>> \in CipOverlap)
                \/ GetOf(pdu, g) = GetOf(pre, g)

C3_Witness ==
    /\ SetOk
    /\ acc = "ieciidc" /\ CallLabel = "CIP_NO_DATA"
    /\ pdu # pre
    /\ GetOf(pdu, Enum(avtp_ieciidc_field, "CIP_TSF")) #
            GetOf(pre, Enum(avtp_ieciidc_field, "CIP_TSF"))
    /\ GetOf(pdu, Enum(avtp_ieciidc_field, "CIP_SYT")) =
            GetOf(pre, Enum(avtp_ieciidc_field, "CIP_SYT"))

\* C4 (truncation): a set of any field with any 64-bit value, all bits set
\* in particular, succeeds; get then returns the value reduced to the low
\* width(f) bits, and the dropped high bits change no bit outside f.
C4_Truncation ==
    (call.op = "set" /\ ~call.null_pdu /\ call.field \in Fields(acc)) =>
        /\ call.res = 0
        /\ GetOf(pdu, call.field) =
              [res |-> 0, val |-> call.value \cap BITMASK(Width(acc, call.field))]
        /\ SameOutside(acc, call.field, pdu, pre)

C4_Witness ==
    /\ SetOk
    /\ acc = "aaf" /\ CallLabel = "NSR"
    /\ call.value = Ones
    /\ pre = Buffer(acc, "zero")
    /\ GetOf(pdu, call.field).val = BITMASK(4)

\* C5 (idempotence): performing the same successful set a second time
\* succeeds and leaves every byte of the buffer as the first left it.
C5_Idempotent ==
    SetOk => PduSet(acc, pdu, call.field, call.value) = [res |-> 0, pdu |-> pdu]

C5_Witness ==
    /\ SetOk
    /\ acc = "crf" /\ CallLabel = "BASE_FREQ"
    /\ pdu # pre
    /\ pre = Buffer(acc, "ramp")

\* The subtype constant of each accessor with an initializer, and the value
\* of each field that an initializer called with argument arg sets.
SubtypeOf(a) ==
    CASE a = "aaf" -> 2 [] a = "cvf" -> 3 [] a = "crf" -> 4 [] a = "rvf" -> 7
      [] a = "vsf_stream" -> 111 [] a = "ieciidc" -> 0

DefaultOf(a, f, arg) ==
    CASE f = "SV" -> 1
      [] a = "cvf" /\ f = "FORMAT" -> 2
      [] a = "cvf" /\ f = "FORMAT_SUBTYPE" -> arg
      [] a = "ieciidc" /\ f = "TCODE" -> 10
      [] a = "ieciidc" /\ f = "TAG" -> arg
      [] OTHER -> 0

HasDefault(field) ==
    GetOf(pdu, field) =
        [res |-> 0, val |-> Word(DefaultOf(acc, Label(FieldEnum(acc), field), call.arg))]

\* The fields stored in the fixed header, which the initializer clears.
HeaderFields(a) == {f \in Fields(a) : FieldBytes(a, f) \subseteq 0..(HeaderLen(a) - 1)}

InvalidCall ==
    \/ call.null_pdu
    \/ call.op = "get" /\ call.null_val
    \/ call.op \in {"get", "set"} /\ call.field \notin Fields(acc)
    \/ call.op = "init" /\ acc = "cvf" /\ call.arg > 2
    \/ call.op = "init" /\ acc = "ieciidc" /\ call.arg > 1

\* C7 (argument validation): get or set with a null PDU, get with a null
\* result pointer, get or set with a field outside the enumeration, CVF init
\* with a format subtype above 2, IEC init with a tag above 1 and any init
\* with a null PDU return -EINVAL; every other call returns 0.
C7_Validation ==
    call.op # "none" => call.res = (IF InvalidCall THEN 0 - EINVAL ELSE 0)

C7_Witness ==
    /\ call.op = "init" /\ acc = "cvf" /\ call.arg = 3 /\ ~call.null_pdu
    /\ call.res = 0 - EINVAL
    /\ pdu = pre

\* C8 (failure leaves no trace): a get or set that returns an error leaves
\* every byte of the buffer, header and payload, as it was, and a failing
\* get does not write the caller's result variable.
C8_FailureFrame ==
    (call.op \in {"get", "set"} /\ call.res < 0) => (pdu = pre /\ val = Stale)

C8_Witness ==
    /\ call.op = "set" /\ call.res < 0 /\ ~call.null_pdu
    /\ acc = "rvf" /\ CallLabel = "MAX"
    /\ call.value = Ones
    /\ pre = Buffer(acc, "ramp") /\ pdu = pre

\* The fields that live in one 32-bit word, and that word.
In32BitWord(a, field) ==
    /\ Cardinality(FieldRegions(a, field)) = 1
    /\ \A r \in FieldRegions(a, field) : r.n = 4
WordOf(a, field) == CHOOSE r \in FieldRegions(a, field) : TRUE

\* C9 as stated (endian property for every PDU): after a successful set of
\* a field of a 32-bit word, byte i of the word is
\* (((v << shift) & mask) >> (8 * (3 - i))) & 0xff.
C9_BytesOfValueOnly ==
    (SetOk /\ In32BitWord(acc, call.field)) =>
        LET r == WordOf(acc, call.field)
            w == Shl(call.value, r.shift) \cap r.mask
        IN \A i \in 0..3 : pdu[r.ofs + i] = ByteOfWord(w, 3 - i)

\* C9 (endian property, amended): after a successful set of a field of a
\* 32-bit word, byte i of the word is (x >> (8 * (3 - i))) & 0xff for
\* x = ((v << shift) & mask) | (old & ~mask), old being the big-endian value
\* of the word before the call; on a word that was zero outside the mask of
\* the field this is the big-endian encoding of (v << shift) & mask.
C9_Endian ==
    (SetOk /\ In32BitWord(acc, call.field)) =>
        LET r == WordOf(acc, call.field)
            old == WordOfBytes(<<pre[r.ofs], pre[r.ofs + 1], pre[r.ofs + 2], pre[r.ofs + 3]>>)
            w == (Shl(call.value, r.shift) \cap r.mask) \cup (old \ r.mask)
        IN \A i \in 0..3 : pdu[r.ofs + i] = ByteOfWord(w, 3 - i)

C9_Witness ==
    /\ SetOk
    /\ acc = "cvf" /\ CallLabel = "FORMAT_SUBTYPE"
    /\ call.value = WordOfBytes(<<103>>)
    /\ pre = Buffer(acc, "ramp")
    /\ pdu[17] = 103 /\ pdu[16] = pre[16] /\ pdu[18] = pre[18]

\* The 24 bytes of a stream header that is zero but for the bytes bs
\* starting at offset ofs.
HeaderWith(ofs, bs) ==
    [i \in 0..(avtp_stream_pdu.avtp_payload - 1) |->
        IF i \in ofs..(ofs + Len(bs) - 1) THEN bs[i - ofs + 1] ELSE 0]
BytesBE(v, n) == [i \in 1..n |-> ByteOfWord(v, n - i)]
Bit0(v) == IF 0 \in v THEN 1 ELSE 0

\* C10 (stream-shared layout): on a zeroed PDU, avtp_stream_pdu_set of SV,
\* MR, TV, SEQ_NUM, TU and STREAM_DATA_LEN yields the subtype_data word
\* 0x00800000, 0x00080000, 0x00010000, seq << 8, 0x00000001 and the
\* packet_info word len << 16; STREAM_ID and TIMESTAMP are the whole
\* big-endian words at offsets 4 and 12; every other header byte stays zero.
C10_StreamLayout ==
    (acc = "stream" /\ SetOk /\ pre = Buffer("stream", "zero")) =>
        LET v == call.value
            expect ==
                CASE CallLabel = "SV" -> HeaderWith(0, <<0, 128 * Bit0(v), 0, 0>>)
                  [] CallLabel = "MR" -> HeaderWith(0, <<0, 8 * Bit0(v), 0, 0>>)
                  [] CallLabel = "TV" -> HeaderWith(0, <<0, Bit0(v), 0, 0>>)
                  [] CallLabel = "SEQ_NUM" -> HeaderWith(0, <<0, 0, ByteOfWord(v, 0), 0>>)
                  [] CallLabel = "TU" -> HeaderWith(0, <<0, 0, 0, Bit0(v)>>)
                  [] CallLabel = "STREAM_ID" -> HeaderWith(4, BytesBE(v, 8))
                  [] CallLabel = "TIMESTAMP" -> HeaderWith(12, BytesBE(v, 4))
                  [] CallLabel = "STREAM_DATA_LEN" ->
                        HeaderWith(20, <<ByteOfWord(v, 1), ByteOfWord(v, 0), 0, 0>>)
        IN \A i \in DOMAIN pdu :
                pdu[i] = IF i < avtp_stream_pdu.avtp_payload THEN expect[i] ELSE 0

C10_Witness ==
    /\ acc = "stream" /\ SetOk /\ pre = Buffer("stream", "zero")
    /\ CallLabel = "STREAM_DATA_LEN"
    /\ call.value = WordOfBytes(<<69, 103>>)
    /\ pdu[20] = 69 /\ pdu[21] = 103 /\ pdu[22] = 0 /\ pdu[23] = 0

\* The value of the bits lo..hi of the big-endian word at offset ofs of
\* buffer p, bit 0 being the most significant bit of the byte at ofs; the
\* bits are taken from the bytes on the wire one by one.
WireBits(p, ofs, lo, hi) ==
    {k \in 0..(hi - lo) :
        (p[ofs + ((hi - k) \div 8)] \div (2 ^ (7 - ((hi - k) % 8)))) % 2 = 1}

\* The fields of the CRF packet_info word and the bits the layout gives them.
CrfInfoBits ==
    [PULL |-> <<0, 2>>, BASE_FREQ |-> <<3, 31>>, CRF_DATA_LEN |-> <<32, 47>>,
     TIMESTAMP_INTERVAL |-> <<48, 63>>]
CrfInfoFields == DOMAIN CrfInfoBits
CrfInfoWidth(f) == CrfInfoBits[f][2] - CrfInfoBits[f][1] + 1

\* One value for each field of packet_info: vs[f] reduced to the field.
CrfCombos(f0, v0) ==
    {[f \in CrfInfoFields |-> IF f = f0 THEN v0 ELSE vs[f] \cap BITMASK(CrfInfoWidth(f))] :
        vs \in [CrfInfoFields -> {{}, Pattern}]}

\* avtp_crf_pdu_set of the four fields of packet_info, one after the other.
CrfSetInfo(p, vs) ==
    Then(Then(Then(
        avtp_crf_pdu_set(p, Enum(avtp_crf_field, "PULL"), vs.PULL),
        LAMBDA q : avtp_crf_pdu_set(q, Enum(avtp_crf_field, "BASE_FREQ"), vs.BASE_FREQ)),
        LAMBDA q : avtp_crf_pdu_set(q, Enum(avtp_crf_field, "CRF_DATA_LEN"),
                                    vs.CRF_DATA_LEN)),
        LAMBDA q : avtp_crf_pdu_set(q, Enum(avtp_crf_field, "TIMESTAMP_INTERVAL"),
                                    vs.TIMESTAMP_INTERVAL))

\* C11 (CRF layout): TYPE is byte 3 of subtype_data; in the 64-bit
\* big-endian packet_info word PULL is bits 0..2, BASE_FREQ bits 3..31,
\* CRF_DATA_LEN bits 32..47 and TIMESTAMP_INTERVAL bits 48..63 (bit 0 the
\* most significant); the four fields partition the word, so every
\* combination of values set into them is read back unchanged and touches
\* nothing but packet_info; set(SV, 1) on a zeroed PDU gives subtype_data
\* 0x00800000, and avtp_crf_pdu_init gives 0x04800000 with stream_id and
\* packet_info zero.
C11_CrfLayout ==
    (acc = "crf") =>
        /\ GetOf(pdu, Enum(avtp_crf_field, "TYPE")).val = WireBits(pdu, 0, 24, 31)
        /\ \A f \in CrfInfoFields :
                GetOf(pdu, Enum(avtp_crf_field, f)).val =
                    WireBits(pdu, avtp_crf_pdu.packet_info,
                             CrfInfoBits[f][1], CrfInfoBits[f][2])
        /\ UNION {Shl(BITMASK(CrfInfoWidth(f)), 63 - CrfInfoBits[f][2]) :
                    f \in CrfInfoFields} = U64
        /\ (SetOk /\ CallLabel \in CrfInfoFields
                /\ Fits(acc, call.field, call.value)) =>
              \A vs \in CrfCombos(CallLabel, call.value) :
                 LET r == CrfSetInfo(pdu, vs)
                 IN /\ r.res = 0
                    /\ \A f \in CrfInfoFields :
                          GetOf(r.pdu, Enum(avtp_crf_field, f)) =
                              [res |-> 0, val |-> vs[f]]
                    /\ \A i \in (DOMAIN pdu) \ (12..19) : r.pdu[i] = pdu[i]
        /\ (SetOk /\ CallLabel = "SV" /\ call.value = Word(1)
                /\ pre = Buffer("crf", "zero")) =>
              pdu = [i \in DOMAIN pre |-> IF i = 1 THEN 128 ELSE 0]
        /\ InitOk =>
              /\ <<pdu[0], pdu[1], pdu[2], pdu[3]>> = <<4, 128, 0, 0>>
              /\ \A i \in 4..19 : pdu[i] = 0

C11_Witness ==
    /\ acc = "crf" /\ SetOk /\ CallLabel = "BASE_FREQ"
    /\ pre = Buffer("crf", "ones")
    /\ call.value = Pattern \cap BITMASK(29)
    /\ GetOf(pdu, Enum(avtp_crf_field, "PULL")).val = BITMASK(3)
    /\ pdu[12] = 224 + ByteOfWord(call.value, 3)
    /\ pdu[15] = ByteOfWord(call.value, 0) /\ pdu[16] = 255

\* The word and the bits of each AAF field, bit 0 being the most
\* significant bit of the word: as the layout is stated, and as the shifts
\* and masks of avtp_aaf.c place them.
AafBitsAsStated ==
    [FORMAT |-> <<16, 8, 15>>, NSR |-> <<16, 16, 19>>,
     CHAN_PER_FRAME |-> <<16, 20, 29>>, BIT_DEPTH |-> <<16, 24, 31>>,
     SP |-> <<20, 12, 12>>, EVT |-> <<20, 16, 19>>]
AafBits ==
    [FORMAT |-> <<16, 0, 7>>, NSR |-> <<16, 8, 11>>,
     CHAN_PER_FRAME |-> <<16, 14, 23>>, BIT_DEPTH |-> <<16, 24, 31>>,
     SP |-> <<20, 19, 19>>, EVT |-> <<20, 20, 23>>]

\* Every AAF field is read from, and a successful set writes its value to,
\* the bits that the table bits gives it.
AafLayoutIs(bits) ==
    (acc = "aaf") =>
        /\ \A f \in DOMAIN bits :
              GetOf(pdu, Enum(avtp_aaf_field, f)).val =
                  WireBits(pdu, bits[f][1], bits[f][2], bits[f][3])
        /\ (SetOk /\ CallLabel \in DOMAIN bits) =>
              WireBits(pdu, bits[CallLabel][1], bits[CallLabel][2], bits[CallLabel][3])
                  = call.value \cap BITMASK(bits[CallLabel][3] - bits[CallLabel][2] + 1)

\* C12 as stated (AAF layout): FORMAT is bits 8..15 of format_specific, NSR
\* bits 16..19, CHAN_PER_FRAME bits 20..29, BIT_DEPTH bits 24..31; SP is bit
\* 12 and EVT bits 16..19 of packet_info (bit 0 the most significant).
C12_AafLayoutAsStated == AafLayoutIs(AafBitsAsStated)

\* C12 (AAF layout, amended): FORMAT is bits 0..7 of format_specific, NSR
\* bits 8..11, CHAN_PER_FRAME bits 14..23, BIT_DEPTH bits 24..31; SP is bit
\* 19 and EVT bits 20..23 of packet_info (bit 0 the most significant); the
\* fields of one word do not overlap.
C12_AafLayout ==
    /\ AafLayoutIs(AafBits)
    /\ \A f, g \in DOMAIN AafBits :
          (f # g /\ AafBits[f][1] = AafBits[g][1]) =>
              (AafBits[f][3] < AafBits[g][2] \/ AafBits[g][3] < AafBits[f][2])

C12_Witness ==
    /\ acc = "aaf" /\ SetOk /\ CallLabel = "CHAN_PER_FRAME"
    /\ pre = Buffer("aaf", "zero")
    /\ call.value = BITMASK(10)
    /\ <<pdu[16], pdu[17], pdu[18], pdu[19]>> = <<0, 3, 255, 0>>

\* C13 (VSF vendor_id): VENDOR_ID is a 48-bit composite.  A successful set
\* stores bits 47..16 of the value in format_specific and bits 15..0 in the
\* low 16 bits of packet_info and leaves the upper 16 bits of packet_info,
\* the stream_data_length, as they were; get returns
\* (format_specific << 16) | (packet_info & 0xFFFF) whatever the upper 16
\* bits hold; a set of STREAM_DATA_LEN does not change what get returns for
\* VENDOR_ID.
C13_VendorId ==
    (acc = "vsf_stream") =>
        /\ GetOf(pdu, Enum(avtp_vsf_stream_field, "VENDOR_ID")) =
              [res |-> 0,
               val |-> Shl(WireBits(pdu, 16, 0, 31), 16) \cup WireBits(pdu, 20, 16, 31)]
        /\ (SetOk /\ CallLabel = "VENDOR_ID") =>
              /\ WireBits(pdu, 16, 0, 31) = Shr(call.value, 16) \cap BITMASK(32)
              /\ WireBits(pdu, 20, 16, 31) = call.value \cap BITMASK(16)
              /\ WireBits(pdu, 20, 0, 15) = WireBits(pre, 20, 0, 15)
              /\ GetOf(pdu, Enum(avtp_vsf_stream_field, "STREAM_DATA_LEN")) =
                    GetOf(pre, Enum(avtp_vsf_stream_field, "STREAM_DATA_LEN"))
        /\ (SetOk /\ CallLabel = "STREAM_DATA_LEN") =>
              GetOf(pdu, Enum(avtp_vsf_stream_field, "VENDOR_ID")) =
                  GetOf(pre, Enum(avtp_vsf_stream_field, "VENDOR_ID"))

C13_Witness ==
    /\ acc = "vsf_stream" /\ SetOk /\ CallLabel = "VENDOR_ID"
    /\ pre = Buffer("vsf_stream", "ones")
    /\ call.value = Pattern
    /\ [i \in 16..23 |-> pdu[i]] =
          [i \in 16..23 |-> <<171, 205, 239, 35, 255, 255, 69, 103>>[i - 15]]
    /\ GetOf(pdu, call.field).val = Pattern

\* The accessors that hand the stream-shared fields to the stream accessor,
\* and the names of those fields.
Delegating == {"aaf", "cvf", "ieciidc", "rvf", "vsf_stream"}
StreamShared ==
    {"SV", "MR", "TV", "SEQ_NUM", "TU", "STREAM_ID", "TIMESTAMP", "STREAM_DATA_LEN"}

\* C14 (delegation equivalence): for the accessors AAF, CVF, IEC 61883/IIDC,
\* RVF and VSF stream and every stream-shared field, X_pdu_get and X_pdu_set
\* called with the enumerator of X return the same value, write the same
\* result and leave the same buffer as avtp_stream_pdu_get and
\* avtp_stream_pdu_set called with the stream enumerator of the same name,
\* null arguments included.  The get calls are compared on every buffer:
\* a get leaves the buffer as it was, so the states after a get add none.
C14_Delegation ==
    (acc \in Delegating) =>
        \A name \in StreamShared :
            /\ (call.op # "get") =>
                  /\ \A p \in {pdu, NULL}, out \in {Stale, NULLV} :
                        PduGet(acc, p, Enum(FieldEnum(acc), name), out) =
                            avtp_stream_pdu_get(p, Enum(avtp_stream_field, name), out)
                  /\ PduSet(acc, NULL, Enum(FieldEnum(acc), name), Ones) =
                        avtp_stream_pdu_set(NULL, Enum(avtp_stream_field, name), Ones)
            /\ (call.op = "set" /\ ~call.null_pdu /\ CallLabel = name) =>
                  [res |-> call.res, pdu |-> pdu] =
                      avtp_stream_pdu_set(pre, Enum(avtp_stream_field, name), call.value)

C14_Witness ==
    /\ acc = "rvf" /\ SetOk /\ CallLabel = "TIMESTAMP"
    /\ pre = Buffer("rvf", "ramp")
    /\ call.value = Pattern \cap BITMASK(32)
    /\ pdu # pre
    /\ pdu = avtp_stream_pdu_set(pre, Enum(avtp_stream_field, "TIMESTAMP"),
                                 call.value).pdu

\* The fields of an accessor that are stored in the payload: CVF
\* H264_TIMESTAMP, the IEC 61883/IIDC CIP fields and the RVF RAW fields.
PayloadFields(a) == Fields(a) \ HeaderFields(a)

FanOut == sent.n = CRF_PDU_SIZE /\ is_valid_crf_pdu(sent.pdu, 0).valid

\* The connection in client slot c, 0 when the slot holds none.
ConnIn(c) == ConnOf(desc, fds[c + EXTRA_FDS])

\* C16: registration gating.  A step sends only to connections on which
\* the daemon has processed a REGISTER request before the step, and a
\* fan-out makes at least one send call on every such connection that is
\* still open.  A new connection in a slot that a registered client held
\* is not sent anything before its own REGISTER.
C16_Gating ==
    [][/\ \A c \in 1..MaxConns : sent'.to[c] # <<>> => c \in registered
       /\ FanOut' => \A c \in registered : sent'.to[c] # <<>>]_vars

\* A valid PDU has just been handled while a connection that has not
\* registered sits in a slot that still holds the registration of the
\* client before it; nothing was sent to it.
C16_Witness ==
    /\ FanOut
    /\ \E c \in 0..(MAX_CLIENTS - 1) :
          /\ ConnIn(c) # 0
          /\ ConnIn(c) \notin registered
          /\ clients[c].events_per_crf # Uninitialized
          /\ sent.to[ConnIn(c)] = <<>>


\* The record of a send call was taken whole.
Taken(s) == s.rc = avtp_crf_daemon_resp.size

\* The send calls of one recover_mclk: EVENT records, every call but the
\* last taken whole, and fewer than MCLKLIST_TS_PER_CRF of them only when
\* the last one failed.
Burst(calls) ==
    /\ Len(calls) \in 1..MCLKLIST_TS_PER_CRF
    /\ \A k \in 1..Len(calls) :
          /\ calls[k].type = Enum(avtp_crf_daemon_response_type, "EVT")
          /\ k < Len(calls) => Taken(calls[k])
    /\ Len(calls) < MCLKLIST_TS_PER_CRF => ~Taken(calls[Len(calls)])

\* C17 as stated: for every valid CRF PDU the daemon makes exactly one
\* send call, of one EVENT record, for each registered client.
C17_OneEvent ==
    [][FanOut' => \A c \in registered : Len(sent'.to[c]) = 1]_vars

\* C17, amended: for every valid CRF PDU of the full size the daemon sends
\* each registered client the EVENT records of one recover_mclk:
\* MCLKLIST_TS_PER_CRF of them when every send takes its record whole,
\* otherwise the records up to and including the first one whose send
\* failed or fell short.
C17_FanOut ==
    [][FanOut' => \A c \in registered : Burst(sent'.to[c])]_vars

\* A valid PDU has just been fanned out to two registered clients, each of
\* which was sent all MCLKLIST_TS_PER_CRF records.
C17_Witness ==
    /\ FanOut
    /\ \E c, d \in registered :
          /\ c # d
          /\ \A e \in {c, d} :
                /\ Len(sent.to[e]) = MCLKLIST_TS_PER_CRF
                /\ \A k \in 1..MCLKLIST_TS_PER_CRF : Taken(sent.to[e][k])


\* The 64-bit sum w + d modulo 2^64 for 0 <= d < 2^31, by 16-bit limbs:
\* l holds the four limbs of w, least significant first.
Limbs(w) == [j \in 0..3 |-> ByteOfWord(w, 2 * j) + 256 * ByteOfWord(w, 2 * j + 1)]
PlusSmall(l, d) ==
    LET s0 == l[0] + (d % 65536)
        s1 == l[1] + (d \div 65536) + (s0 \div 65536)
        s2 == l[2] + (s1 \div 65536)
        s3 == l[3] + (s2 \div 65536)
    IN  Word(s0 % 65536) \cup Shl(Word(s1 % 65536), 16)
            \cup Shl(Word(s2 % 65536), 32) \cup Shl(Word(s3 % 65536), 48)

\* The first timestamp of CRF PDU p, the number of ticks recovered from one
\* PDU and their period in nanoseconds.
FirstTimestamp(p) == LoadBE(p, avtp_crf_pdu.crf_data, 8)
TicksPerPdu == 48000 \div 300
PeriodNs == 1000000000 \div 300

\* C18: media-clock recovery.  For a valid CRF PDU with first timestamp T0
\* the k-th send call (k = 0, 1, ...) made for a client carries
\* T0 + k * PeriodNs modulo 2^64; there are at most TicksPerPdu calls, and
\* every call but the last was taken whole, so what a client gets is a
\* prefix of the sequence that ends with the first failed send.  No other
\* timestamp of the PDU is used.
C18_Recovery ==
    [][FanOut' =>
        \A l \in {Limbs(FirstTimestamp(sent'.pdu))} :
            \A c \in 1..MaxConns :
                \A calls \in {sent'.to[c]} :
                    /\ Len(calls) <= TicksPerPdu
                    /\ \A k \in 1..Len(calls) :
                          /\ calls[k].timestamp = PlusSmall(l, (k - 1) * PeriodNs)
                          /\ k < Len(calls) => Taken(calls[k])]_vars

\* A valid PDU whose first timestamp is 2^64 - 1 has been fanned out: a
\* client was sent all the ticks, the last of which wrapped around to
\* 159 * PeriodNs - 1, and another client was sent only the first one.
C18_Witness ==
    /\ FanOut
    /\ FirstTimestamp(sent.pdu) = U64
    /\ \E c, d \in 1..MaxConns :
          /\ Len(sent.to[c]) = TicksPerPdu
          /\ sent.to[c][TicksPerPdu].timestamp = Word(159 * PeriodNs - 1)
          /\ Len(sent.to[d]) = 1
          /\ sent.to[d][1].timestamp = U64


\* The last send call of calls failed or fell short.
SendFailed(calls) == calls # <<>> /\ ~Taken(calls[Len(calls)])

\* The daemon has accepted connection c and holds no descriptor for it.
ClosedByDaemon(c) ==
    /\ c <= nconns
    /\ \A j \in 1..Len(backlog) : backlog[j] # c
    /\ \A fd \in ClientFds : desc[fd] # c

\* C19: per-client send failure.  When, in a fan-out, a send to registered
\* client c fails or transfers fewer bytes than one EVENT record, that call
\* is the last one made for c, the daemon closes c's descriptor, frees c's
\* entry of fds and of clients, and every other registered client, in a
\* lower or a higher slot, is still sent its own records of this PDU, cut
\* short by nothing but a failure of its own send.  In no later step is
\* anything sent on a connection the daemon has closed, and the fan-outs of
\* later PDUs are subject to the same rule.
C19_SendFailure ==
    [][/\ FanOut' =>
            \A c \in registered : SendFailed(sent'.to[c]) =>
                /\ Burst(sent'.to[c])
                /\ \A fd \in ClientFds : desc'[fd] # c
                /\ c \notin registered'
                /\ \A k \in 0..(MAX_CLIENTS - 1) :
                      ConnIn(k) = c =>
                          fds'[k + EXTRA_FDS] = -1 /\ clients'[k].fd = -1
                /\ \A d \in registered \ {c} : Burst(sent'.to[d])
       /\ \A c \in 1..MaxConns : ClosedByDaemon(c) => sent'.to[c] = <<>>]_vars

\* A valid PDU has just been fanned out: the first send to the client of
\* slot 0 failed, the slot is free and its connection closed, and the
\* client of slot 1 was sent all MCLKLIST_TS_PER_CRF records after that.
C19_Witness ==
    /\ FanOut
    /\ fds[EXTRA_FDS] = -1
    /\ clients[0].fd = -1
    /\ \E c, d \in 1..MaxConns :
          /\ ClosedByDaemon(c)
          /\ Len(sent.to[c]) = 1
          /\ SendFailed(sent.to[c])
          /\ ConnIn(1) = d
          /\ d \in registered
          /\ Len(sent.to[d]) = MCLKLIST_TS_PER_CRF
          /\ ~SendFailed(sent.to[d])

\* The second PDU of a run has just been fanned out after the first one
\* cost a client its connection: the client that is left was sent all
\* the records, the closed connection none.
C19_LaterPdu ==
    /\ FanOut
    /\ nframes = 2
    /\ \E c, d \in 1..MaxConns :
          /\ ClosedByDaemon(c)
          /\ sent.to[c] = <<>>
          /\ clients[0].fd = -1 /\ clients[0].events_per_crf # Uninitialized
          /\ ConnIn(1) = d
          /\ Len(sent.to[d]) = MCLKLIST_TS_PER_CRF
          /\ ~SendFailed(sent.to[d])


\* C20: close on peer disconnect.  Whenever a step of the daemon sets a
\* client's entry of fds to -1, the descriptor that the entry held is
\* closed after the step, whether or not the client had registered.
C20_CloseOnFree ==
    [][\A k \in EXTRA_FDS..(EXTRA_FDS + MAX_CLIENTS - 1) :
          (fds[k] >= 0 /\ fds'[k] = -1) => ConnOf(desc', fds[k]) = 0]_vars

\* The daemon waits in poll while a descriptor of a connection that was
\* accepted is open and in no entry of fds although an entry is free.
C20_Leak ==
    /\ at = "poll"
    /\ \E fd \in ClientFds :
          /\ desc[fd] # 0
          /\ \A k \in Slots : fds[k] # fd
    /\ \E k \in EXTRA_FDS..(EXTRA_FDS + MAX_CLIENTS - 1) : fds[k] = -1


\* The entries of fds that belong to clients, and those that hold fd.
ClientSlots == EXTRA_FDS..(EXTRA_FDS + MAX_CLIENTS - 1)
Holders(fd) == {k \in ClientSlots : fds[k] = fd}

\* C21: slot ownership.  In every state each open client descriptor is held
\* by exactly one entry of fds.
C21_Ownership ==
    \A fd \in ClientFds : desc[fd] # 0 => Cardinality(Holders(fd)) = 1

\* The daemon waits in poll with two connections open: the later one holds
\* the slot that the earlier one had, and the descriptor of the earlier
\* one is in no entry of fds.
C21_Orphan ==
    /\ at = "poll"
    /\ \E fd, g \in ClientFds :
          /\ desc[fd] # 0 /\ desc[g] # 0
          /\ desc[fd] < desc[g]
          /\ Holders(fd) = {}
          /\ Holders(g) = {EXTRA_FDS}


\* C22: fatal errors.  When the for loop finds events other than plain
\* POLLIN at the listening or the capture socket, the next thing main does
\* is to leave the while loop and shut down; it does not call poll again.
C22_FatalExit ==
    [][(at = "loop" /\ loop_i < EXTRA_FDS /\ revents[loop_i] # POLLIN)
          => at' = "exit"]_vars


\* C23: accept.  Every descriptor that a step of the daemon opens (accept
\* returned it) is, after the step, in an entry of fds below nfds, so that
\* the next poll call looks at it.
C23_AcceptedHasSlot ==
    [][\A fd \in ClientFds :
          (desc[fd] = 0 /\ desc'[fd] # 0) =>
              \E k \in ClientSlots : fds'[k] = fd /\ k < nfds']_vars

\* Every client entry of fds holds an open descriptor, and one more
\* accepted connection is open in no entry.
C23_NoSlot ==
    /\ \A k \in ClientSlots : ConnOf(desc, fds[k]) # 0
    /\ \E fd \in ClientFds : desc[fd] # 0 /\ Holders(fd) = {}


\* The step to come is main's request branch at entry loop_i of fds.
AtRequest ==
    /\ at = "loop"
    /\ revents[loop_i] = POLLIN
    /\ fds[loop_i] \notin {server_fd, crf_fd}
    /\ ConnOf(desc, fds[loop_i]) # 0

\* The whole request records among the bytes bs, in their order, and the
\* registration that process_request leaves in client record cl after them.
Records(bs) ==
    [j \in 1..(Len(bs) \div avtp_crf_daemon_req.size) |->
        ReqOfBytes(SubSeq(bs, avtp_crf_daemon_req.size * (j - 1) + 1,
                          avtp_crf_daemon_req.size * j))]
Registers(rs) == {j \in 1..Len(rs) : rs[j].type = Word(0)}
Registration(cl, fd, rs) ==
    IF Registers(rs) = {} THEN cl
    ELSE \* the last REGISTER of rs
         [fd |-> fd,
          events_per_crf |->
              rs[CHOOSE j \in Registers(rs) : \A i \in Registers(rs) : i <= j].events_per_sec,
          event_type |->
              rs[CHOOSE j \in Registers(rs) : \A i \in Registers(rs) : i <= j].event_type]

\* C24: short read.  In main's request branch for the client of slot s with
\* connection c, whose unread bytes are bs: when the last recv returns 0
\* (the peer has closed and bs is a whole number of records) or a positive
\* count that is not the size of a record, the daemon unregisters c, closes
\* its descriptor and frees its entries of fds and clients; when the last
\* recv would block, c stays open in its slot, registered if and only if it
\* was registered or bs holds a REGISTER, with the values of the last one;
\* records with another tag change nothing.  In both cases the other
\* clients' entries, descriptors and registrations are as before and the
\* daemon stays in its loop.
C24_ShortRead ==
    [][AtRequest =>
        \A s \in {loop_i - EXTRA_FDS} : \A fd \in {fds[loop_i]} : \A c \in {desc[fds[loop_i]]} :
        \A bs \in {conns[c].inbox} : \A rs \in {Records(conns[c].inbox)} :
            /\ IF Len(bs) % avtp_crf_daemon_req.size # 0 \/ conns[c].closed
               THEN /\ c \notin registered'
                    /\ desc'[fd] = 0
                    /\ fds'[loop_i] = -1
                    /\ clients'[s] = [Registration(clients[s], fd, rs) EXCEPT !.fd = -1]
               ELSE /\ desc'[fd] = c
                    /\ fds'[loop_i] = fd
                    /\ clients'[s] = Registration(clients[s], fd, rs)
                    /\ c \in registered' <=> (c \in registered \/ Registers(rs) # {})
            /\ \A k \in Slots \ {loop_i} : fds'[k] = fds[k]
            /\ \A t \in (0..(MAX_CLIENTS - 1)) \ {s} : clients'[t] = clients[t]
            /\ \A g \in ClientFds \ {fd} : desc'[g] = desc[g]
            /\ registered' \ {c} = registered \ {c}
            /\ at' \in {"loop", "poll"}
            /\ nfds' = nfds]_vars

\* Two peers have connected; one has registered and is in its slot, the
\* other has closed or written part of a record without ever registering,
\* and the daemon, which has sent nothing, has closed its descriptor and
\* freed its slot.
C24_Witness ==
    /\ at = "poll"
    /\ nconns = 2 /\ nevents = 4 /\ nframes = 0
    /\ \E c, d \in 1..2 :
          /\ c # d
          /\ ClosedByDaemon(c)
          /\ registered = {d}
          /\ \E s \in 0..(MAX_CLIENTS - 1) :
                /\ ConnIn(s) = d /\ clients[s].fd = fds[s + EXTRA_FDS]
                /\ fds[(1 - s) + EXTRA_FDS] = -1 /\ clients[1 - s].fd = -1


(***************************************************************************)
(* The daemon in front of a capture socket that receives frames of many    *)
(* kinds, while its peers do nothing but connect and register: the same    *)
(* actions as in DaemonSpec, with other frames and fewer peers.            *)
(***************************************************************************)
GateClients == 1    \* peers that connect in one run

\* Buffer p with byte b at offset k.
SetByte(p, k, b) == [p EXCEPT ![k] = b]
\* CRF PDU p after avtp_crf_pdu_set(p, name, v).
CrfWith(p, name, v) == avtp_crf_pdu_set(p, Enum(avtp_crf_field, name), v).pdu

\* A PDU of the stream with sequence number 41, and the frames made from
\* it that differ from the stream in one field of the header each.
Stream41 == TalkerPdu(WordOfBytes(<<0, 0, 171, 205, 239, 35, 69, 103>>), 41, CRF_SAMPLE_RATE)
EarlyRejects ==
    {SetByte(Stream41, 0, AVTP_SUBTYPE.AAF),       \* subtype
     SetByte(Stream41, 1, 128 + 16),               \* version 1
     CrfWith(Stream41, "SV", Word(0)),
     CrfWith(Stream41, "FS", Word(1))}
LateRejects ==
    {CrfWith(Stream41, "TYPE", Word(2)),
     CrfWith(Stream41, "STREAM_ID", WordOfBytes(<<170, 187, 204, 221, 238, 255, 0, 1>>)),
     CrfWith(Stream41, "PULL", Word(1)),
     CrfWith(Stream41, "BASE_FREQ", Word(44100)),
     CrfWith(Stream41, "CRF_DATA_LEN", Word(CRF_DATA_LEN - 8))}
\* A frame one byte shorter and one a byte longer than a CRF PDU.
ShortFrame == [k \in 0..(CRF_PDU_SIZE - 2) |-> Stream41[k]]
LongFrame == [k \in 0..CRF_PDU_SIZE |-> IF k < CRF_PDU_SIZE THEN Stream41[k] ELSE 0]

GateFrames ==
    {TalkerPdu(WordOfBytes(<<0, 0, 171, 205, 239, 35, 69, 103>>), 0, CRF_SAMPLE_RATE),
     TalkerPdu(U64, 255, CRF_SAMPLE_RATE),
     Stream41, ShortFrame, LongFrame} \cup EarlyRejects \cup LateRejects

GateNext ==
    \/ nconns < GateClients /\ Connect
    \/ \E c \in 1..nconns : Write(c, Register(CRF_TIMESTAMPS_PER_SEC, "RESENT_TIME"))
    \/ \E f \in GateFrames : Capture(f)
    \/ Poll
    \/ Accept
    \/ ProcessCrf
    \/ Request

GateSpec == DaemonInit /\ [][GateNext]_vars


\* The step to come is process_crf on the frame at the capture socket.
AtCrf == at = "loop" /\ revents[loop_i] = POLLIN /\ fds[loop_i] = crf_fd

\* The header of f is that of a PDU of the stream: subtype CRF, sv 1,
\* version 0, fs 0, type AUDIO_SAMPLE, stream id 0xAABBCCDDEEFF0002,
\* pull 0, base_freq 48000 and crf_data_len 48, read from the bits on the
\* wire.
StreamHeader(f) ==
    /\ WireBits(f, 0, 0, 7) = Word(4)
    /\ WireBits(f, 0, 8, 8) = Word(1)
    /\ WireBits(f, 0, 9, 11) = Word(0)
    /\ WireBits(f, 0, 14, 14) = Word(0)
    /\ WireBits(f, 0, 24, 31) = Word(1)
    /\ WireBits(f, 4, 0, 63) = WordOfBytes(<<170, 187, 204, 221, 238, 255, 0, 2>>)
    /\ WireBits(f, 12, 0, 2) = Word(0)
    /\ WireBits(f, 12, 3, 31) = Word(48000)
    /\ WireBits(f, 12, 32, 47) = Word(48)

\* The step sends to every registered client; the step sends nothing and
\* closes no client.
SendsToAll == \A c \in registered : sent'.to[c] # <<>>
SendsNothing ==
    /\ \A c \in 1..MaxConns : sent'.to[c] = <<>>
    /\ desc' = desc /\ fds' = fds /\ clients' = clients /\ registered' = registered

\* C25: validation gate.  A frame is fanned out to the registered clients
\* if its length is 20 + 6 * 8 = 68 bytes and its header is that of the
\* stream, whatever its sequence number; any other frame sends nothing and
\* closes no client.
C25_Gate ==
    [][AtCrf =>
        IF Cardinality(DOMAIN frame) = 68 /\ StreamHeader(frame)
        THEN SendsToAll ELSE SendsNothing]_vars

\* The gate as process_crf has it: recv hands over at most CRF_PDU_SIZE
\* bytes of the frame, so the length that is compared is 68 for every
\* frame of 68 bytes or more.
C25_GateOnReceived ==
    [][AtCrf =>
        IF Cardinality(DOMAIN frame) >= 68 /\ StreamHeader(frame)
        THEN SendsToAll ELSE SendsNothing]_vars

\* A frame of 69 bytes with the header of the stream is about to be handled
\* while a client is registered.
C25_LongFramePending ==
    /\ AtCrf
    /\ Cardinality(DOMAIN frame) = CRF_PDU_SIZE + 1
    /\ StreamHeader(frame)
    /\ registered # {}

\* The header of f passes the first four checks: subtype CRF, version 0,
\* sv 1 and fs 0, read from the bits on the wire.
PassesFirstChecks(f) ==
    /\ WireBits(f, 0, 0, 7) = Word(4)
    /\ WireBits(f, 0, 9, 11) = Word(0)
    /\ WireBits(f, 0, 8, 8) = Word(1)
    /\ WireBits(f, 0, 14, 14) = Word(0)

C26_Wrap ==
    /\ sent.n = CRF_PDU_SIZE
    /\ sent.pdu # <<>>
    /\ sent.pdu[2] = 255
    /\ crf_seq_num = 0


(***************************************************************************)
(* A caller that initializes its buffer and then sets fields: one call of  *)
(* X_pdu_init followed, when it succeeded, by X_pdu_set calls, up to       *)
(* ChainCalls calls in all.                                                *)
(***************************************************************************)
ChainCalls == 3    \* the initializer and the sets that follow it

ChainInit ==
    /\ Init
    /\ acc \in Initializers

\* The first call: X_pdu_init(pdu [, arg]).
ChainInitialize(arg, nullp) ==
    /\ ncalls = 0
    /\ With(PduInit(acc, IF nullp THEN NULL ELSE pdu, arg), LAMBDA r :
          /\ call' = [op |-> "init", field |-> 0, value |-> {}, arg |-> arg,
                      null_pdu |-> nullp, null_val |-> FALSE, res |-> r.res]
          /\ pdu' = IF nullp THEN pdu ELSE r.pdu)
    /\ pre' = pdu
    /\ val' = Stale
    /\ ncalls' = 1
    /\ UNCHANGED <<acc, daemon, world>>

\* A later call: X_pdu_set(pdu, field, v) on the initialized buffer.
ChainSet(field, v, nullp) ==
    /\ ncalls >= 1 /\ ncalls < ChainCalls
    /\ call.op = "init" => call.res = 0
    /\ With(PduSet(acc, IF nullp THEN NULL ELSE pdu, field, v), LAMBDA r :
          /\ call' = [op |-> "set", field |-> field, value |-> v, arg |-> 0,
                      null_pdu |-> nullp, null_val |-> FALSE, res |-> r.res]
          /\ pdu' = IF nullp THEN pdu ELSE r.pdu)
    /\ pre' = pdu
    /\ val' = Stale
    /\ ncalls' = ncalls + 1
    /\ UNCHANGED <<acc, daemon, world>>

ChainNext ==
    \/ \E arg \in InitArgs(acc), nullp \in BOOLEAN : ChainInitialize(arg, nullp)
    \/ \E field \in FieldIds(acc) : \E v \in Values(acc, field) : ChainSet(field, v, FALSE)
    \/ \E field \in NullFieldIds(acc) : ChainSet(field, Ones, TRUE)

ChainSpec == ChainInit /\ [][ChainNext]_vars


\* The version bits and the sv bit of the header: bits 6..4 and bit 7 of
\* byte 1.
VersionBits(p) == (p[1] \div 16) % 8
SvBit(p) == p[1] \div 128

\* C27 (subtype invariance): after a successful X_pdu_init, every
\* X_pdu_set call, successful or failing, of any field with any value
\* leaves byte 0 and the three version bits as they were, so the subtype
\* read from the header stays the subtype constant of X; the sv bit changes
\* only in a successful set of SV.
C27_SubtypeInvariance ==
    call.op = "set" =>
        /\ pdu[0] = pre[0]
        /\ VersionBits(pdu) = VersionBits(pre)
        /\ avtp_pdu_get_subtype(pdu) = Word(SubtypeOf(acc))
        /\ SvBit(pdu) # SvBit(pre) => SetOk /\ CallLabel = "SV"

\* The second set after avtp_cvf_pdu_init changed byte 1 of the header, and
\* the subtype is still CVF.
C27_Witness ==
    /\ acc = "cvf"
    /\ ncalls = ChainCalls
    /\ SetOk
    /\ pdu[1] # pre[1]
    /\ pdu[0] = 3
    /\ VersionBits(pdu) = 0


(***************************************************************************)
(* A caller that makes X_pdu_set calls only, on a buffer with any of the   *)
(* prior contents, up to MaxCalls of them.                                 *)
(***************************************************************************)
PairNext == \E field \in Fields(acc) : \E v \in Values(acc, field) : Set(field, v, FALSE)
PairSpec == Init /\ [][PairNext]_vars

\* The bits of the buffer that X_pdu_set(field) writes, numbered from bit 0
\* of byte 0 upward: bit k of the n-byte big-endian word at ofs is bit
\* k % 8 of byte ofs + n - 1 - k \div 8.
BufferBits(a, field) ==
    UNION {{8 * (r.ofs + r.n - 1 - (k \div 8)) + (k % 8) : k \in r.mask} :
            r \in FieldRegions(a, field)}
SharesBits(a, f, g) == BufferBits(a, f) \cap BufferBits(a, g) # {}

\* The IEC 61883/IIDC CIP fields that the format-dependent layouts of cip_2
\* place on shared bits.
CipShared == {"CIP_TSF", "CIP_ND", "CIP_EVT", "CIP_SFC", "CIP_N", "CIP_NO_DATA"}

\* set(g, w) and then set(f, v) on buffer p.
SetSet(a, p, g, w, f, v) == PduSet(a, PduSet(a, p, g, w).pdu, f, v).pdu

\* C28 (commutativity): for two fields f and g of one accessor that share
\* no bit of the buffer, set(f, v) followed by set(g, w) leaves the same
\* bytes as set(g, w) followed by set(f, v), for all values and prior
\* contents; two distinct fields share bits only when both are among the
\* IEC 61883/IIDC CIP fields TSF, ND, EVT, SFC, N and NO_DATA.
C28_Commute ==
    (call.op = "set" /\ ~call.null_pdu /\ call.field \in Fields(acc)) =>
        \A g \in Fields(acc) \ {call.field} :
            IF SharesBits(acc, call.field, g)
            THEN acc = "ieciidc" /\ {CallLabel, Label(FieldEnum(acc), g)} \subseteq CipShared
            ELSE \A w \in Values(acc, g) :
                    PduSet(acc, pdu, g, w).pdu =
                        SetSet(acc, pre, g, w, call.field, call.value)

\* set(M) of the CVF accessor has changed the buffer, and a set of EVT,
\* which is stored in the same word, commutes with it and changes the
\* buffer as well.
C28_Witness ==
    /\ SetOk
    /\ acc = "cvf" /\ CallLabel = "M"
    /\ pre = Buffer(acc, "ramp")
    /\ pdu # pre
    /\ \E g \in {Enum(avtp_cvf_field, "EVT")} :
          /\ FieldBytes(acc, g) \cap FieldBytes(acc, call.field) # {}
          /\ PduSet(acc, pdu, g, Ones).pdu # pdu
          /\ PduSet(acc, pdu, g, Ones).pdu = SetSet(acc, pre, g, Ones, call.field, call.value)


\* The latest call is an initializer called with a null buffer, with a CVF
\* format subtype above JPEG2000 (2), or with an IEC 61883/IIDC tag above 1.
InitBadArgs ==
    /\ call.op = "init"
    /\ \/ call.null_pdu
       \/ acc = "cvf" /\ call.arg > 2
       \/ acc = "ieciidc" /\ call.arg > 1

\* C29 (failing initializer): an initializer called with a null buffer, a
\* CVF format subtype above 2 or an IEC 61883/IIDC tag above 1 fails, and
\* an initializer that fails leaves every byte of the caller's buffer as it
\* was before the call.
C29_InitFailure ==
    /\ InitBadArgs => call.res = 0 - EINVAL
    /\ (call.op = "init" /\ call.res # 0) => pdu = pre

\* avtp_ieciidc_pdu_init(pdu, 2) on a buffer of 0xFF bytes has failed and
\* the buffer still holds 0xFF in every byte.
C29_Witness ==
    /\ acc = "ieciidc"
    /\ call.op = "init" /\ ~call.null_pdu /\ call.arg = 2
    /\ call.res = 0 - EINVAL
    /\ pre = Buffer(acc, "ones")
    /\ \A i \in DOMAIN pdu : pdu[i] = 255


\* Every client slot i is consistent: clients[i].fd is -1 or the descriptor
\* of fds[i + EXTRA_FDS], a slot without a polled descriptor is not
\* registered, and a slot with a polled descriptor is below nfds.
SlotsConsistent ==
    \A i \in 0..(MAX_CLIENTS - 1) :
        /\ clients[i].fd \in {-1, fds[i + EXTRA_FDS]}
        /\ fds[i + EXTRA_FDS] = -1 => clients[i].fd = -1
        /\ fds[i + EXTRA_FDS] >= 0 => i + EXTRA_FDS < nfds

\* C30 (slot consistency): in every state of the daemon every client slot
\* is consistent, and no step makes nfds smaller.
C30_Slots == []SlotsConsistent /\ [][nfds' >= nfds]_vars

\* The daemon is about to poll with one registered client in the first
\* slot, and the second slot, used before, is free again: nfds is still 4.
C30_Witness ==
    /\ at = "poll"
    /\ clients[0].fd >= 0 /\ clients[0].fd = fds[EXTRA_FDS]
    /\ fds[EXTRA_FDS + 1] = -1
    /\ nfds = EXTRA_FDS + 2

=============================================================================
